---- MODULE Spec2Model ----
(***************************************************************************)
(* A model of src/src/pdf-extractor.py (EnhancedIRCTCTicketExtractor).     *)
(*                                                                         *)
(* Text is modelled at character level: a line is a TLA+ string, a page is *)
(* a sequence of lines, and every locator is computed the way the code     *)
(* computes it (substring tests, the regular expressions written out as    *)
(* scanning operators).  Python's None is the value None for strings and   *)
(* NoneNum for numbers; a dict is a TLA+ record whose DOMAIN is the key    *)
(* set; money is held in paise (hundredths) so that amounts stay exact.    *)
(***************************************************************************)
EXTENDS Integers, Sequences, FiniteSets, TLC

\* ------------------------------------------------------------------------
\* Python values
\* ------------------------------------------------------------------------

\* None in a string-valued slot (no line of any page equals it).
None == "<None>"

\* None in a number-valued slot (every extracted number is >= 0).
NoneNum == -1

\* {} : the empty dict
EmptyDict == <<>>

\* bool(x) for an optional string: None and '' are falsy.
Truthy(s) == s # None /\ s # ""

\* bool(x) for an optional number: None and 0 are falsy.
TruthyNum(n) == n # NoneNum /\ n # 0

\* d.get(k) is truthy, for a dict d whose value at k is an optional string.
HasStr(d, k) == k \in DOMAIN d /\ Truthy(d[k])

\* d[k] = v on a dict (the key is added when absent).
Put(d, k, v) == [x \in (DOMAIN d) \cup {k} |-> IF x = k THEN v ELSE d[x]]

SetMin(S) == CHOOSE m \in S : \A y \in S : m <= y

SetMax(S) == CHOOSE m \in S : \A y \in S : m >= y

\* ------------------------------------------------------------------------
\* Strings
\* ------------------------------------------------------------------------

\* the character at index i of s ("" outside the string)
Ch(s, i) == IF i >= 1 /\ i <= Len(s) THEN SubSeq(s, i, i) ELSE ""

\* s[:k]
Prefix(s, k) == SubSeq(s, 1, IF k < Len(s) THEN k ELSE Len(s))

\* s[i:] with a 1-based i
From(s, i) == SubSeq(s, i, Len(s))

Digits == {"0", "1", "2", "3", "4", "5", "6", "7", "8", "9"}

UpperAZ == "ABCDEFGHIJKLMNOPQRSTUVWXYZ"

LowerAZ == "abcdefghijklmnopqrstuvwxyz"

IsDigit(c) == c \in Digits

UpperSet == {Ch(UpperAZ, i) : i \in 1..26}

LowerSet == {Ch(LowerAZ, i) : i \in 1..26}

IsUpper(c) == c \in UpperSet

IsLower(c) == c \in LowerSet

\* \s
IsSpace(c) == c = " "

\* \w
IsWord(c) == IsDigit(c) \/ IsUpper(c) \/ IsLower(c) \/ c = "_"

\* the lower-case letter of every upper-case letter
LowerOf == [c \in UpperSet |-> Ch(LowerAZ, CHOOSE i \in 1..26 : Ch(UpperAZ, i) = c)]

\* the upper-case letter of every lower-case letter
UpperOf == [c \in LowerSet |-> Ch(UpperAZ, CHOOSE i \in 1..26 : Ch(LowerAZ, i) = c)]

LowerCh(c) == IF IsUpper(c) THEN LowerOf[c] ELSE c

UpperCh(c) == IF IsLower(c) THEN UpperOf[c] ELSE c

RECURSIVE StrLower(_)
\* str.lower()
StrLower(s) == IF s = "" THEN "" ELSE LowerCh(Ch(s, 1)) \o StrLower(From(s, 2))

RECURSIVE StrUpper(_)
\* str.upper()
StrUpper(s) == IF s = "" THEN "" ELSE UpperCh(Ch(s, 1)) \o StrUpper(From(s, 2))

\* t in s
Contains(s, t) == \E i \in 1..(Len(s) - Len(t) + 1) : SubSeq(s, i, i + Len(t) - 1) = t

\* s.startswith(t)
StartsWith(s, t) == Len(s) >= Len(t) /\ SubSeq(s, 1, Len(t)) = t

\* s[i:].startswith(t)
MatchAt(s, i, t) == i >= 1 /\ i + Len(t) - 1 <= Len(s) /\ SubSeq(s, i, i + Len(t) - 1) = t

\* str.strip()
Strip(s) ==
    LET keep == {i \in 1..Len(s) : ~IsSpace(Ch(s, i))}
    IN  IF keep = {} THEN "" ELSE SubSeq(s, SetMin(keep), SetMax(keep))

\* every character of s[i..j] is a digit
AllDigits(s, i, j) == i >= 1 /\ j <= Len(s) /\ \A k \in i..j : IsDigit(Ch(s, k))

\* the first index >= i of s that is not a space (Len(s)+1 when there is none)
SkipSpaces(s, i) == SetMin({k \in i..(Len(s) + 1) : k = Len(s) + 1 \/ ~IsSpace(Ch(s, k))})

\* the first index >= i of s that is not a digit (Len(s)+1 when there is none)
SkipDigits(s, i) == SetMin({k \in i..(Len(s) + 1) : k = Len(s) + 1 \/ ~IsDigit(Ch(s, k))})

DigitVal(c) == CHOOSE d \in 0..9 : Ch("0123456789", d + 1) = c

RECURSIVE ToInt(_)
\* int(s) for a digit string
ToInt(s) == IF s = "" THEN 0 ELSE 10 * ToInt(SubSeq(s, 1, Len(s) - 1)) + DigitVal(Ch(s, Len(s)))

RECURSIVE ToStr(_)
\* str(n) for n >= 0
ToStr(n) == IF n < 10 THEN Ch("0123456789", n + 1) ELSE ToStr(n \div 10) \o Ch("0123456789", (n % 10) + 1)

\* ------------------------------------------------------------------------
\* Regular expressions of the locators, as scanning operators.  Each returns
\* what re.search(...).group(1) returns, or None when there is no match.
\* ------------------------------------------------------------------------

\* the least index in S, or 0 when S is empty
FirstIn(S) == IF S = {} THEN 0 ELSE SetMin(S)

\* re.search(r'(\d{10})', s)
ReDigits10(s) ==
    LET i == FirstIn({k \in 1..Len(s) : AllDigits(s, k, k + 9)})
    IN  IF i = 0 THEN None ELSE SubSeq(s, i, i + 9)

\* \b at the gap before index i of s (between s[i-1] and s[i])
WordBoundary(s, i) ==
    LET before == i > 1 /\ i - 1 <= Len(s) /\ IsWord(Ch(s, i - 1))
        after  == i >= 1 /\ i <= Len(s) /\ IsWord(Ch(s, i))
    IN  before # after

\* re.search(r'\b(\d{10})\b', s)
ReStandalone10(s) ==
    LET i == FirstIn({k \in 1..Len(s) :
                 AllDigits(s, k, k + 9) /\ WordBoundary(s, k) /\ WordBoundary(s, k + 10)})
    IN  IF i = 0 THEN None ELSE SubSeq(s, i, i + 9)

\* re.search(lit + r'\s*(\d{10})', s)
ReLabelDigits10(s, lit) ==
    LET ok(k) == /\ MatchAt(s, k, lit)
                 /\ LET j == SkipSpaces(s, k + Len(lit)) IN AllDigits(s, j, j + 9)
        i == FirstIn({k \in 1..Len(s) : ok(k)})
    IN  IF i = 0 THEN None
        ELSE LET j == SkipSpaces(s, i + Len(lit)) IN SubSeq(s, j, j + 9)

\* re.search(r'Transaction ID:\s*(\d+)', s)
ReTransactionId(s) ==
    LET lit == "Transaction ID:"
        ok(k) == /\ MatchAt(s, k, lit)
                 /\ LET j == SkipSpaces(s, k + Len(lit)) IN j <= Len(s) /\ IsDigit(Ch(s, j))
        i == FirstIn({k \in 1..Len(s) : ok(k)})
    IN  IF i = 0 THEN None
        ELSE LET j == SkipSpaces(s, i + Len(lit)) IN SubSeq(s, j, SkipDigits(s, j) - 1)

\* the index of the last character of a match of
\* \d{2}-\d{2}-\d{4}\s+\d{2}:\d{2}:\d{2} that starts at index i of s, or 0
DateTimeEnd(s, i) ==
    IF /\ AllDigits(s, i, i + 1) /\ Ch(s, i + 2) = "-"
       /\ AllDigits(s, i + 3, i + 4) /\ Ch(s, i + 5) = "-"
       /\ AllDigits(s, i + 6, i + 9)
       /\ i + 10 <= Len(s) /\ IsSpace(Ch(s, i + 10))
    THEN LET j == SkipSpaces(s, i + 10)
         IN  IF /\ AllDigits(s, j, j + 1) /\ Ch(s, j + 2) = ":"
                /\ AllDigits(s, j + 3, j + 4) /\ Ch(s, j + 5) = ":"
                /\ AllDigits(s, j + 6, j + 7)
             THEN j + 7 ELSE 0
    ELSE 0

\* re.search(r'(\d{2}-\d{2}-\d{4}\s+\d{2}:\d{2}:\d{2})', s)
ReDateTime(s) ==
    LET i == FirstIn({k \in 1..Len(s) : DateTimeEnd(s, k) # 0})
    IN  IF i = 0 THEN None ELSE SubSeq(s, i, DateTimeEnd(s, i))

\* ------------------------------------------------------------------------
\* Field locators
\* ------------------------------------------------------------------------

\* any(word in line.lower() for word in words)
AnyWordIn(line, words) == LET lower == StrLower(line) IN \E w \in words : Contains(lower, w)

\* lines.index(line), 0-based
IndexOfLine(lines, line) == SetMin({k \in 1..Len(lines) : lines[k] = line}) - 1

\* extract_pnr, the labelled route: what the loop body finds at line i
PnrAtLabel(lines, i) ==
    LET line == lines[i]
        p1 == ReLabelDigits10(line, "PNR:")
        p2 == ReLabelDigits10(line, "PNR")
        p3 == ReDigits10(line)
        same == IF p1 # None THEN p1 ELSE IF p2 # None THEN p2 ELSE p3
    IN  IF same # None THEN same
        ELSE IF i + 1 <= Len(lines) THEN ReStandalone10(Strip(lines[i + 1]))
        ELSE None

\* a fallback route that accepts a token anywhere in the line sequence
PnrFallbackAnywhere(lines, i) ==
    LET line == lines[i]
        m == ReStandalone10(line)
    IN  IF AnyWordIn(line, {"mobile", "phone", "contact", "sms", "call"}) THEN None
        ELSE IF m = None THEN None
        ELSE IF Ch(m, 1) \notin {"0", "8", "9"} THEN m ELSE None

\* extract_pnr, the fallback route: what the loop body accepts at line i
PnrFallbackAt(lines, i) ==
    LET line == lines[i]
        m == ReStandalone10(line)
    IN  IF AnyWordIn(line, {"mobile", "phone", "contact", "sms", "call"}) THEN None
        ELSE IF m = None THEN None
        ELSE IF /\ Ch(m, 1) \notin {"0", "8", "9"}
                /\ 2 * IndexOfLine(lines, line) < Len(lines)
             THEN m ELSE None

\* an extract_pnr that takes the value of the last labelled line
ExtractPnrLastLabel(lines) ==
    LET n == Len(lines)
        lab == SetMax({0} \cup {i \in 1..n :
                   /\ Contains(lines[i], "PNR:") \/ Contains(lines[i], "PNR ")
                   /\ PnrAtLabel(lines, i) # None})
        fb  == FirstIn({i \in 1..n : PnrFallbackAt(lines, i) # None})
    IN  IF lab # 0 THEN PnrAtLabel(lines, lab)
        ELSE IF fb # 0 THEN PnrFallbackAt(lines, fb)
        ELSE None

\* extract_pnr
ExtractPnr(lines) ==
    LET n == Len(lines)
        lab == FirstIn({i \in 1..n :
                   /\ Contains(lines[i], "PNR:") \/ Contains(lines[i], "PNR ")
                   /\ PnrAtLabel(lines, i) # None})
        fb  == FirstIn({i \in 1..n : PnrFallbackAt(lines, i) # None})
    IN  IF lab # 0 THEN PnrAtLabel(lines, lab)
        ELSE IF fb # 0 THEN PnrFallbackAt(lines, fb)
        ELSE None

ExtractTransactionId(lines) ==
    LET i == FirstIn({k \in 1..Len(lines) :
                 Contains(lines[k], "Transaction ID:") /\ ReTransactionId(lines[k]) # None})
    IN  IF i = 0 THEN None ELSE ReTransactionId(lines[i])

\* extract_print_time: what the loop body finds at line i
PrintTimeAt(lines, i) ==
    LET next == IF i + 1 <= Len(lines) THEN ReDateTime(Strip(lines[i + 1])) ELSE None
    IN  IF next # None THEN next ELSE ReDateTime(lines[i])

ExtractPrintTime(lines) ==
    LET i == FirstIn({k \in 1..Len(lines) :
                 Contains(lines[k], "Ticket Printing Time") /\ PrintTimeAt(lines, k) # None})
    IN  IF i = 0 THEN None ELSE PrintTimeAt(lines, i)

\* ------------------------------------------------------------------------
\* Journey locator
\* ------------------------------------------------------------------------

\* the start of the match of re.search(r'(\d+)\s*-(.+)', s), or 0
TrainStart(s) ==
    FirstIn({k \in 1..Len(s) :
        /\ IsDigit(Ch(s, k))
        /\ LET d == SkipSpaces(s, SkipDigits(s, k)) IN Ch(s, d) = "-" /\ d < Len(s)})

\* the start of the match of re.search(r'(\d+)\s*KM', s), or 0
DistanceStart(s) ==
    FirstIn({k \in 1..Len(s) :
        IsDigit(Ch(s, k)) /\ MatchAt(s, SkipSpaces(s, SkipDigits(s, k)), "KM")})

\* re.search(r'^([A-Z][A-Z\s]+?)\s*\(([A-Z-]+)\)$', s) when ~emptyCode, and
\* with ([A-Z-]*) for the code when emptyCode: the index of "(", or 0
StationParen(s, emptyCode) ==
    FirstIn({p \in 3..(Len(s) - 1) :
        /\ Ch(s, p) = "(" /\ Ch(s, Len(s)) = ")"
        /\ IsUpper(Ch(s, 1))
        /\ \A k \in 2..(p - 1) : IsUpper(Ch(s, k)) \/ IsSpace(Ch(s, k))
        /\ \A k \in (p + 1)..(Len(s) - 1) : IsUpper(Ch(s, k)) \/ Ch(s, k) = "-"
        /\ emptyCode \/ p + 1 <= Len(s) - 1})

\* group(1).strip() of the station match whose "(" is at p
StationName(s, p) == Strip(SubSeq(s, 1, p - 1))

\* group(2).strip() of the station match whose "(" is at p
StationCode(s, p) == SubSeq(s, p + 1, Len(s) - 1)

RECURSIVE Words(_)
\* str.split()
Words(s) ==
    LET t == Strip(s)
        sp == FirstIn({k \in 1..Len(t) : IsSpace(Ch(t, k))})
    IN  IF t = "" THEN <<>>
        ELSE IF sp = 0 THEN <<t>>
        ELSE <<SubSeq(t, 1, sp - 1)>> \o Words(From(t, sp))

\* station_mappings of infer_station_code, in dict order
station_mappings ==
    << <<"NEW DELHI", "NDLS">>, <<"RATLAM JN", "RTM">>, <<"MUMBAI CENTRAL", "BCT">>,
       <<"CHENNAI CENTRAL", "MAS">>, <<"KOLKATA", "HWH">>, <<"BANGALORE", "SBC">>,
       <<"HYDERABAD", "HYB">>, <<"PUNE", "PUNE">>, <<"AHMEDABAD", "ADI">>,
       <<"INDORE", "INDB">> >>

\* the fallbacks of infer_station_code for a name without a mapping
AbbreviateStation(clean, words) ==
    IF Len(words) >= 2 THEN Prefix(words[1], 2) \o Prefix(words[2], 2)
    ELSE IF Len(words) = 1 THEN Prefix(words[1], 3)
    ELSE Prefix(clean, 4)

\* infer_station_code for the cleaned name: the direct mapping, the partial one,
\* the abbreviation
InferFromClean(clean) ==
    LET n == Len(station_mappings)
        direct == FirstIn({k \in 1..n : station_mappings[k][1] = clean})
        partial == FirstIn({k \in 1..n :
                       \/ Contains(clean, station_mappings[k][1])
                       \/ Contains(station_mappings[k][1], clean)})
    IN  IF direct # 0 THEN station_mappings[direct][2]
        ELSE IF partial # 0 THEN station_mappings[partial][2]
        ELSE AbbreviateStation(clean, Words(clean))

InferStationCode(station_name) == InferFromClean(StrUpper(Strip(station_name)))

\* the entries of a station line with its name and code
StationDict(name, code) ==
    [station_name |-> name,
     station |-> IF code = "-" \/ code = "" THEN InferStationCode(name) ELSE code]

\* the entries of the station line s whose "(" is at p, {} when p = 0
StationEntriesAt(s, p) ==
    IF p = 0 THEN EmptyDict ELSE StationDict(StationName(s, p), StationCode(s, p))

\* the station_name / station entries a station line gives, {} when it does not match
StationEntries(s, emptyCode) == StationEntriesAt(s, StationParen(s, emptyCode))

\* range(max(0, i - before), min(len(lines), i + after)) around the 1-based index i
Window(lines, i, before, after) ==
    {j \in 1..Len(lines) : j >= i - before /\ j <= i + after - 1}

\* the station dict with the datetime found on line dt (0 for none)
WithDateTime(station, lines, dt) ==
    IF dt = 0 THEN station ELSE Put(station, "datetime", ReDateTime(lines[dt]))

\* the station a line near the departure line dep names (dep = 0 for none)
NearDeparture(lines, dep) ==
    IF dep = 0 THEN 0
    ELSE FirstIn({j \in Window(lines, dep, 3, 3) :
             j # dep /\ StationParen(Strip(lines[j]), FALSE) # 0})

\* the boarding station: the one under "Booked From", else one near the departure line
BoardingStation(lines, booked, near) ==
    IF booked # EmptyDict THEN booked
    ELSE IF near # 0 THEN StationEntries(Strip(lines[near]), FALSE)
    ELSE EmptyDict

\* the entries of the line after line i, {} when i = 0
EntriesAfter(lines, i, emptyCode) ==
    IF i = 0 THEN EmptyDict ELSE StationEntries(Strip(lines[i + 1]), emptyCode)

\* extract_enhanced_station_info(lines, 'boarding'), {} standing for None
BoardingInfo(lines) ==
    WithDateTime(
        BoardingStation(
            lines,
            EntriesAfter(lines,
                FirstIn({i \in 1..(Len(lines) - 1) : Contains(lines[i], "Booked From")}), FALSE),
            NearDeparture(lines,
                FirstIn({i \in 1..Len(lines) : Contains(lines[i], "Departure*")}))),
        lines,
        FirstIn({i \in 1..Len(lines) :
            Contains(lines[i], "Departure*") /\ ReDateTime(lines[i]) # None}))

\* the arrival line within the window of the "To" line (0 for none)
ArrivalNear(lines, to) ==
    IF to = 0 THEN 0
    ELSE FirstIn({j \in Window(lines, to, 5, 5) :
             Contains(lines[j], "Arrival*") /\ ReDateTime(lines[j]) # None})

\* the destination for the "To" line at index to (0 for none)
DestinationAt(lines, to) ==
    WithDateTime(EntriesAfter(lines, to, TRUE), lines, ArrivalNear(lines, to))

\* extract_enhanced_station_info(lines, 'destination'), {} standing for None
DestinationInfo(lines) ==
    DestinationAt(lines,
        FirstIn({i \in 1..(Len(lines) - 1) :
            /\ Strip(lines[i]) = "To"
            /\ ~AnyWordIn(Strip(lines[i + 1]), {"payment", "passenger", "fare", "required"})}))

\* the last index in S, or 0 when S is empty
LastIn(S) == IF S = {} THEN 0 ELSE SetMax(S)

\* group(1).strip() of the train match in the line tl
TrainNumberIn(tl) == Strip(SubSeq(tl, TrainStart(tl), SkipDigits(tl, TrainStart(tl)) - 1))

\* group(2).strip() of the train match in the line tl
TrainNameIn(tl) == Strip(From(tl, SkipSpaces(tl, SkipDigits(tl, TrainStart(tl))) + 1))

\* int(group(1)) of the distance match in the line dl
DistanceIn(dl) == ToInt(SubSeq(dl, DistanceStart(dl), SkipDigits(dl, DistanceStart(dl)) - 1))

\* the journey dict for the label lines found: train, class, quota, distance (0 for none)
JourneyAt(lines, tr, cl, qu, di) ==
    [train_number |-> IF tr = 0 THEN None ELSE TrainNumberIn(Strip(lines[tr + 1])),
     train_name   |-> IF tr = 0 THEN None ELSE TrainNameIn(Strip(lines[tr + 1])),
     class        |-> IF cl = 0 THEN None ELSE Strip(lines[cl + 1]),
     quota        |-> IF qu = 0 THEN None ELSE Strip(lines[qu + 1]),
     distance_km  |-> IF di = 0 THEN NoneNum ELSE DistanceIn(Strip(lines[di + 1])),
     boarding     |-> BoardingInfo(lines),
     destination  |-> DestinationInfo(lines)]

\* extract_journey_info before its final test: the journey dict
JourneyFields(lines) ==
    JourneyAt(lines,
        LastIn({i \in 1..(Len(lines) - 1) :
            Contains(lines[i], "Train No./Name") /\ TrainStart(Strip(lines[i + 1])) # 0}),
        LastIn({i \in 1..(Len(lines) - 1) : lines[i] = "Class"}),
        LastIn({i \in 1..(Len(lines) - 1) : lines[i] = "Quota"}),
        LastIn({i \in 1..(Len(lines) - 1) :
            lines[i] = "Distance" /\ DistanceStart(Strip(lines[i + 1])) # 0}))

\* any(journey.values())
AnyJourneyValue(j) ==
    \/ Truthy(j.train_number) \/ Truthy(j.train_name) \/ Truthy(j.class) \/ Truthy(j.quota)
    \/ TruthyNum(j.distance_km) \/ j.boarding # EmptyDict \/ j.destination # EmptyDict

\* the final test of extract_journey_info: <<journey>>, or <<>> for None
JourneyResult(journey) == IF AnyJourneyValue(journey) THEN <<journey>> ELSE <<>>

\* extract_journey_info as the list of its results: <<journey>>, or <<>> for None
ExtractJourneyInfo(lines) == JourneyResult(JourneyFields(lines))

\* what an f-string prints for an optional string
Fmt(v) == IF v = None THEN "None" ELSE v

\* f"{d.get(k, 'UNKNOWN')}"
GetOrUnknown(d, k) == IF k \in DOMAIN d THEN Fmt(d[k]) ELSE "UNKNOWN"

\* a journey key made of the train number alone
CreateJourneyKeyTrainOnly(journey) == Fmt(journey.train_number)

\* create_journey_key
CreateJourneyKey(journey) ==
    Fmt(journey.train_number) \o "_" \o Fmt(journey.train_name) \o "_" \o Fmt(journey.class)
    \o "_" \o GetOrUnknown(journey.boarding, "station")
    \o "_" \o GetOrUnknown(journey.boarding, "datetime")
    \o "_" \o GetOrUnknown(journey.destination, "station")
    \o "_" \o GetOrUnknown(journey.destination, "datetime")

\* page_starts of extract_all_journeys (1-based)
PageStarts(lines) == {i \in 1..Len(lines) : Contains(lines[i], "--- PAGE")}

\* lines[page_start:page_end] for the page that starts at st
PageLines(lines, starts, st) ==
    SubSeq(lines, st, IF \E x \in starts : x > st
                      THEN SetMin({x \in starts : x > st}) - 1 ELSE Len(lines))

\* one iteration of the page loop: the candidate found on the page is appended unless
\* its key was seen (acc is [journeys, seen_journeys, candidates])
AddCandidate(acc, found) ==
    IF found = <<>> THEN acc
    ELSE IF CreateJourneyKey(found[1]) \in acc.seen_journeys
    THEN [acc EXCEPT !.candidates = Append(@, found[1])]
    ELSE [journeys |-> Append(acc.journeys, found[1]),
          seen_journeys |-> acc.seen_journeys \cup {CreateJourneyKey(found[1])},
          candidates |-> Append(acc.candidates, found[1])]

RECURSIVE PageLoop(_, _, _, _)
\* the page loop of extract_all_journeys over the page starts left
PageLoop(lines, starts, left, acc) ==
    IF left = {} THEN acc
    ELSE PageLoop(lines, starts, left \ {SetMin(left)},
                  AddCandidate(acc, ExtractJourneyInfo(PageLines(lines, starts, SetMin(left)))))

\* extract_all_journeys after the page loop: the whole sequence is tried when no
\* journey was found
AfterPageLoop(lines, acc) ==
    IF acc.journeys = <<>> THEN [acc EXCEPT !.journeys = ExtractJourneyInfo(lines)] ELSE acc

\* extract_all_journeys: [journeys, seen_journeys, candidates]
ExtractAllJourneys(lines) ==
    AfterPageLoop(lines,
        PageLoop(lines, PageStarts(lines), PageStarts(lines),
                 [journeys |-> <<>>, seen_journeys |-> {}, candidates |-> <<>>]))

\* ------------------------------------------------------------------------
\* Passenger assembler
\* ------------------------------------------------------------------------

\* the ticketing system's cap in the details scan (while ... passenger_count < 6)
MaxDetailRecords == 6

\* the greatest index accepted in the numbered name list (sno <= 10)
MaxNameIndex == 10

\* re.match(r'^(\d+)\.\s*(.+)$', s): the index where group(2) starts, or 0
NumberedStart(s) ==
    LET e == SkipDigits(s, 1)
        j == SkipSpaces(s, e + 1)
    IN  IF e > 1 /\ Ch(s, e) = "." /\ j <= Len(s) THEN j ELSE 0

\* re.match(r'^\d+(\.\d+)?$', s)
IsDecimalNumber(s) ==
    LET e == SkipDigits(s, 1)
    IN  /\ e > 1
        /\ \/ e = Len(s) + 1
           \/ Ch(s, e) = "." /\ e + 1 <= Len(s) /\ SkipDigits(s, e + 1) = Len(s) + 1

\* re.match(r'^[A-Z][A-Z\s]*$', s)
IsUpperName(s) ==
    /\ IsUpper(Ch(s, 1))
    /\ \A k \in 2..Len(s) : IsUpper(Ch(s, k)) \/ IsSpace(Ch(s, k))

\* step 1 of extract_passengers on one line: <<(sno, name)>> when accepted, else <<>>
NameOfLine(rawline) ==
    LET line == Strip(rawline)
        g2 == NumberedStart(line)
        sno == ToInt(SubSeq(line, 1, SkipDigits(line, 1) - 1))
        name == StrUpper(Strip(From(line, g2)))
    IN  IF /\ g2 # 0
           /\ Len(From(line, g2)) > 1
           /\ ~AnyWordIn(name, {"charges", "fee", "fare", "total", "details"})
           /\ ~IsDecimalNumber(name)
           /\ sno <= MaxNameIndex
           /\ Len(name) > 2
           /\ IsUpperName(name)
        THEN << <<sno, name>> >> ELSE <<>>

RECURSIVE PassengerNames(_)
\* step 1 of extract_passengers: passenger_names
PassengerNames(lines) ==
    IF lines = <<>> THEN <<>> ELSE NameOfLine(Head(lines)) \o PassengerNames(Tail(lines))

\* step 2 of extract_passengers: passenger_start_idx (1-based; 0 for -1)
PassengerStartIdx(lines) ==
    FirstIn({i \in 1..Len(lines) :
        Contains(lines[i], "Passenger Details:") \/ Contains(lines[i], "Passenger Details")})

\* re.match(r'^\d{1,3}$', s)
IsAgeToken(s) == Len(s) >= 1 /\ Len(s) <= 3 /\ AllDigits(s, 1, Len(s))

\* lines[i].strip(), or None when i is past the end
StripAt(lines, i) == IF i <= Len(lines) THEN Strip(lines[i]) ELSE None

\* re.match(r'^(CNF|RAC|RLWL|PQWL|WL)', s)
IsStatusCode(s) == \E c \in {"CNF", "RAC", "RLWL", "PQWL", "WL"} : StartsWith(s, c)

\* s.split('/')[0]
BeforeSlash(s) ==
    LET k == FirstIn({i \in 1..Len(s) : Ch(s, i) = "/"})
    IN  IF k = 0 THEN s ELSE SubSeq(s, 1, k - 1)

\* the detail record read at the age token of line i
DetailAt(lines, i) ==
    LET g == StripAt(lines, i + 1)
        f == StripAt(lines, i + 2)
        st == StripAt(lines, i + 3)
        status == IF st # None /\ IsStatusCode(st) THEN st ELSE None
    IN  [age |-> ToInt(Strip(lines[i])),
         gender |-> IF g \in {"Male", "Female", "Transgender"} THEN g ELSE None,
         food_choice |-> IF f \in {"Veg", "Non-Veg", "JAIN"} THEN f ELSE None,
         booking_status |-> status,
         current_status |-> IF status # None /\ status # "" THEN BeforeSlash(status) ELSE None]

RECURSIVE DetailScan(_, _, _)
\* step 3 of extract_passengers: the while loop from index i with passenger_count = count
DetailScan(lines, i, count) ==
    IF ~(i <= Len(lines) /\ count < MaxDetailRecords) THEN <<>>
    ELSE LET line == Strip(lines[i])
         IN  IF IsAgeToken(line) /\ ToInt(line) >= 1 /\ ToInt(line) <= 120
             THEN <<DetailAt(lines, i)>> \o DetailScan(lines, i + 4, count + 1)
             ELSE IF \E kw \in {"PG Charges", "IRCTC Convenience Fee", "In case of cancellation"} :
                        Contains(line, kw)
             THEN <<>>
             ELSE DetailScan(lines, i + 1, count)

\* step 3 of extract_passengers: passenger_details
PassengerDetails(lines) == DetailScan(lines, PassengerStartIdx(lines) + 1, 0)

NoDetails ==
    [age |-> NoneNum, gender |-> None, food_choice |-> None,
     booking_status |-> None, current_status |-> None]

\* the passenger dict of a (sno, name) pair and a detail record
MakePassenger(sno, name, d) ==
    [sno |-> sno, name |-> name, age |-> d.age, gender |-> d.gender,
     food_choice |-> d.food_choice, booking_status |-> d.booking_status,
     current_status |-> d.current_status]

\* a merge that stops at the shorter of the two lists
MergeRosterShortest(names, details) ==
    LET m == IF Len(names) <= Len(details) THEN Len(names) ELSE Len(details)
    IN  [i \in 1..m |-> MakePassenger(names[i][1], names[i][2], details[i])]

\* a merge that hands the detail records to the last names of the list
MergeRosterFromEnd(names, details) ==
    LET m == IF Len(names) >= Len(details) THEN Len(names) ELSE Len(details)
        shift == m - Len(details)
    IN  [i \in 1..m |->
            MakePassenger(IF i <= Len(names) THEN names[i][1] ELSE i,
                          IF i <= Len(names) THEN names[i][2] ELSE "PASSENGER_" \o ToStr(i),
                          IF i > shift THEN details[i - shift] ELSE NoDetails)]

\* step 4 of extract_passengers: the roster of names and details merged by index
MergeRoster(names, details) ==
    LET m == IF Len(names) >= Len(details) THEN Len(names) ELSE Len(details)
    IN  [i \in 1..m |->
            MakePassenger(IF i <= Len(names) THEN names[i][1] ELSE i,
                          IF i <= Len(names) THEN names[i][2] ELSE "PASSENGER_" \o ToStr(i),
                          IF i <= Len(details) THEN details[i] ELSE NoDetails)]

ExtractPassengers(lines) ==
    IF PassengerStartIdx(lines) = 0
    THEN MergeRoster(PassengerNames(lines), <<>>)
    ELSE MergeRoster(PassengerNames(lines), PassengerDetails(lines))

\* ------------------------------------------------------------------------
\* Payment extractor (amounts in paise)
\* ------------------------------------------------------------------------

\* the first index >= i of s that is neither a digit nor a comma
SkipAmountRun(s, i) ==
    SetMin({k \in i..(Len(s) + 1) : k = Len(s) + 1 \/ ~(IsDigit(Ch(s, k)) \/ Ch(s, k) = ",")})

\* the index after the match of [\d,]+\.?\d* that starts at index i of s
AmountEnd(s, i) ==
    LET e == SkipAmountRun(s, i)
    IN  IF Ch(s, e) = "." THEN SkipDigits(s, e + 1) ELSE e

RECURSIVE DropCommas(_)
\* s.replace(',', '')
DropCommas(s) ==
    IF s = "" THEN ""
    ELSE (IF Ch(s, 1) = "," THEN "" ELSE Ch(s, 1)) \o DropCommas(From(s, 2))

\* float(s) in paise for s = digits* [. digits*], NoneNum for ValueError (no digit
\* at all); the amounts of the modelled pages have at most two decimals
ToPaise(s) ==
    LET e == SkipDigits(s, 1)
        whole == SubSeq(s, 1, e - 1)
        frac == IF Ch(s, e) = "." THEN From(s, e + 1) ELSE ""
        cents == Prefix(frac \o "00", 2)
    IN  IF whole = "" /\ frac = "" THEN NoneNum
        ELSE 100 * ToInt(whole) + ToInt(cents)

\* the same-line attempt of extract_amount: re.search(r'[\d,]+\.?\d*', s)
AmountInLine(s) ==
    LET k == FirstIn({i \in 1..Len(s) : IsDigit(Ch(s, i)) \/ Ch(s, i) = ","})
    IN  IF k = 0 THEN NoneNum ELSE ToPaise(DropCommas(SubSeq(s, k, AmountEnd(s, k) - 1)))

\* a following-line attempt of extract_amount: re.search(r'^[\d,]+\.?\d*$', s)
AmountWholeLine(s) ==
    IF s # "" /\ SkipAmountRun(s, 1) > 1 /\ AmountEnd(s, 1) = Len(s) + 1
    THEN ToPaise(DropCommas(s)) ELSE NoneNum

\* an extract_amount that reads three following lines
ExtractAmountNextThree(lines, start) ==
    LET same == AmountInLine(lines[start])
        nxt == FirstIn({i \in (start + 1)..(start + 3) :
                   i <= Len(lines) /\ AmountWholeLine(lines[i]) # NoneNum})
    IN  IF same # NoneNum THEN same
        ELSE IF nxt # 0 THEN AmountWholeLine(lines[nxt])
        ELSE NoneNum

\* extract_amount(lines, start_idx) with a 1-based start
ExtractAmount(lines, start) ==
    LET same == AmountInLine(lines[start])
        nxt == FirstIn({i \in (start + 1)..(start + 2) :
                   i <= Len(lines) /\ AmountWholeLine(lines[i]) # NoneNum})
    IN  IF same # NoneNum THEN same
        ELSE IF nxt # 0 THEN AmountWholeLine(lines[nxt])
        ELSE NoneNum

\* the payment key the if/elif chain of extract_payment_details picks for a line
PaymentKey(line) ==
    IF Contains(line, "Ticket Fare") THEN "ticket_fare"
    ELSE IF Contains(line, "IRCTC Convenience Fee") THEN "irctc_fee"
    ELSE IF Contains(line, "Travel Insurance Premium") \/ Contains(line, "Insurance") THEN "insurance"
    ELSE IF Contains(line, "Travel Agent Service Charge") \/ Contains(line, "Agent") THEN "agent_fee"
    ELSE IF Contains(line, "Pg Charges") THEN "pg_charges"
    ELSE IF Contains(line, "Total Fare") THEN "total"
    ELSE None

NoPayment ==
    [ticket_fare |-> NoneNum, irctc_fee |-> NoneNum, insurance |-> NoneNum,
     agent_fee |-> NoneNum, pg_charges |-> NoneNum, total |-> NoneNum]

RECURSIVE PaymentScan(_, _, _)
\* the loop of extract_payment_details from index i with the dict so far
PaymentScan(lines, i, payment) ==
    IF i > Len(lines) THEN payment
    ELSE LET key == PaymentKey(lines[i])
         IN  PaymentScan(lines, i + 1,
                 IF key = None THEN payment
                 ELSE [payment EXCEPT ![key] = ExtractAmount(lines, i)])

ExtractPaymentDetails(lines) ==
    LET start == FirstIn({i \in 1..Len(lines) :
                     Contains(lines[i], "Payment Details") \/ Contains(lines[i], "Ticket Fare")})
    IN  IF start = 0 THEN NoPayment ELSE PaymentScan(lines, start, NoPayment)

\* ------------------------------------------------------------------------
\* Enrichment and journey metadata
\* ------------------------------------------------------------------------

\* round(a / b, 2) on paise, ties to even (Python rounds the binary float of the
\* quotient; the two agree whenever the quotient is not a tie)
RoundDiv(a, b) ==
    LET q == a \div b
        r == a % b
    IN  IF 2 * r > b \/ (2 * r = b /\ q % 2 = 1) THEN q + 1 ELSE q

InferGenderFromName(name) ==
    IF ~Truthy(name) THEN None
    ELSE IF \E pat \in {"devi", "kumari", "ben", "bai", "rani", "mata"} :
                Contains(StrLower(name), pat) THEN "Female"
    ELSE IF \E pat \in {"kumar", "singh", "sharma", "das", "raj"} :
                Contains(StrLower(name), pat) THEN "Male"
    ELSE None

\* calculate_passenger_confidence: (score / 5.0) * 100, the score counted in halves
CalculatePassengerConfidence(p) ==
    LET halves ==
            (IF Truthy(p.name) /\ Len(p.name) > 1
             THEN 2 + (IF IsUpperName(p.name) THEN 1 ELSE 0) ELSE 0)
          + (IF TruthyNum(p.age) /\ p.age >= 1 /\ p.age <= 120 THEN 2 ELSE 0)
          + (IF p.gender \in {"Male", "Female", "Transgender"} THEN 2 ELSE 0)
          + (IF Truthy(p.booking_status) /\ Truthy(p.current_status) THEN 2 ELSE 0)
          + (IF p.food_choice \in {"Veg", "Non-Veg", "JAIN"} THEN 1 ELSE 0)
    IN  halves * 10

CategorizeAge(age) ==
    IF age <= 12 THEN "child"
    ELSE IF age <= 17 THEN "minor"
    ELSE IF age <= 59 THEN "adult"
    ELSE "senior"

\* an enrichment that leaves an absent gender as it is
EnhancePassengerGenderAsFound(p, fare) ==
    LET e1 == IF Truthy(p.name) /\ TruthyNum(p.age)
              THEN Put(Put(p, "passenger_key", StrUpper(p.name) \o "_" \o ToStr(p.age)),
                       "profile_data",
                       [name |-> StrUpper(p.name), age |-> p.age, gender |-> p.gender,
                        confidence_score |-> CalculatePassengerConfidence(p)])
              ELSE p
        e2 == IF fare # NoneNum THEN Put(e1, "fare_per_passenger", fare) ELSE e1
    IN  IF TruthyNum(p.age)
        THEN Put(Put(Put(e2, "age_category", CategorizeAge(p.age)),
                     "is_senior", p.age >= 60), "is_child", p.age <= 12)
        ELSE e2

\* the body of the loop of enhance_passenger_data for one passenger
EnhancePassenger(p, fare) ==
    LET e1 == IF Truthy(p.name) /\ TruthyNum(p.age)
              THEN Put(Put(p, "passenger_key", StrUpper(p.name) \o "_" \o ToStr(p.age)),
                       "profile_data",
                       [name |-> StrUpper(p.name), age |-> p.age, gender |-> p.gender,
                        confidence_score |-> CalculatePassengerConfidence(p)])
              ELSE p
        e2 == IF fare # NoneNum THEN Put(e1, "fare_per_passenger", fare) ELSE e1
        g  == InferGenderFromName(p.name)
        e3 == IF ~Truthy(p.gender) /\ Truthy(p.name) /\ g # None
              THEN Put(Put(e2, "gender", g), "gender_inferred", TRUE)
              ELSE e2
    IN  IF TruthyNum(p.age)
        THEN Put(Put(Put(e3, "age_category", CategorizeAge(p.age)),
                     "is_senior", p.age >= 60), "is_child", p.age <= 12)
        ELSE e3

EnhancePassengerData(passengers, payment) ==
    LET fare == IF TruthyNum(payment.total) /\ Len(passengers) > 0
                THEN RoundDiv(payment.total, Len(passengers)) ELSE NoneNum
    IN  [i \in 1..Len(passengers) |-> EnhancePassenger(passengers[i], fare)]

\* d.get('station', '').strip()
StationOf(d) == IF "station" \in DOMAIN d THEN Strip(d.station) ELSE ""

\* d.get('datetime')
DateTimeOf(d) == IF "datetime" \in DOMAIN d THEN d.datetime ELSE None

\* analyze_journey_connection as the list of its results: <<connection>>, or <<>> for None
AnalyzeJourneyConnection(journey1, journey2) ==
    LET dest1 == journey1.destination
        board2 == journey2.boarding
        conn == [connection_station |-> StationOf(dest1),
                 connection_type |-> "direct_transfer",
                 from_train |-> journey1.train_number,
                 to_train |-> journey2.train_number]
    IN  IF StationOf(dest1) # StationOf(board2) THEN <<>>
        ELSE IF Truthy(DateTimeOf(dest1)) /\ Truthy(DateTimeOf(board2))
        THEN <<Put(conn, "layover_info",
                   [arrival_time |-> DateTimeOf(dest1), departure_time |-> DateTimeOf(board2)])>>
        ELSE <<conn>>

RECURSIVE Connections(_, _)
\* the connections found from the pair (i, i + 1) onwards
Connections(journeys, i) ==
    IF i >= Len(journeys) THEN <<>>
    ELSE AnalyzeJourneyConnection(journeys[i], journeys[i + 1]) \o Connections(journeys, i + 1)

RECURSIVE TotalDistance(_)
\* sum(j.get('distance_km') or 0 for j in journeys)
TotalDistance(journeys) ==
    IF journeys = <<>> THEN 0
    ELSE (IF TruthyNum(Head(journeys).distance_km) THEN Head(journeys).distance_km ELSE 0)
         + TotalDistance(Tail(journeys))

\* the overnight test of analyze_journey_patterns on one journey
IsOvernight(j) ==
    /\ j.boarding # EmptyDict /\ j.destination # EmptyDict
    /\ Truthy(DateTimeOf(j.boarding)) /\ Truthy(DateTimeOf(j.destination))
    /\ \/ Contains(DateTimeOf(j.boarding), "22:")
       \/ Contains(DateTimeOf(j.boarding), "23:")
       \/ Contains(DateTimeOf(j.destination), "00:")

AnalyzeJourneyPatterns(journeys) ==
    LET n == Len(journeys)
        analysis == [total_segments |-> n,
                     is_multi_segment |-> n > 1,
                     total_distance |-> TotalDistance(journeys),
                     journey_type |-> IF n > 1 THEN "multi_segment" ELSE "single",
                     connections |-> IF n > 1 THEN Connections(journeys, 1) ELSE <<>>,
                     layovers |-> <<>>]
    IN  IF n = 0 THEN EmptyDict
        ELSE IF \E i \in 1..n : IsOvernight(journeys[i])
        THEN Put(analysis, "has_overnight", TRUE)
        ELSE analysis

\* ------------------------------------------------------------------------
\* parse_ticket_text_single_page
\* ------------------------------------------------------------------------

\* not p.get('name', '').startswith('PASSENGER_')
HasRealName(p) == ~StartsWith(p.name, "PASSENGER_")

\* has_valid_ticket_data without the test for a real passenger name
HasValidTicketDataAnyName(pnr, passengers, journeys) ==
    (Truthy(pnr) /\ Len(pnr) = 10) /\ Len(passengers) > 0 /\ Len(journeys) > 0

\* has_valid_ticket_data of parse_ticket_text_single_page
HasValidTicketData(pnr, passengers, journeys) ==
    LET pnr_valid == Truthy(pnr) /\ Len(pnr) = 10
        passengers_valid == Len(passengers) > 0
        passengers_have_real_names ==
            passengers_valid /\ \E i \in 1..Len(passengers) : HasRealName(passengers[i])
        journeys_valid == Len(journeys) > 0
    IN  pnr_valid /\ passengers_have_real_names /\ journeys_valid

\* fields_extracted of parse_ticket_text_single_page
FieldsExtracted(pnr, transaction_id, ticket_print_time, journeys, passengers, payment) ==
    (IF Truthy(pnr) THEN 1 ELSE 0) + (IF Truthy(transaction_id) THEN 1 ELSE 0)
  + (IF Truthy(ticket_print_time) THEN 1 ELSE 0)
  + Len(journeys) + Len(passengers) + Cardinality(DOMAIN payment)

\* a record that also holds the stations of its first journey under top-level keys
TicketRecordWithStations(pnr, transaction_id, ticket_print_time, journeys, passengers, payment, fields_extracted, page_number, now) ==
    LET base == [pnr |-> pnr,
                 transaction_id |-> transaction_id,
                 ticket_print_time |-> ticket_print_time,
                 journeys |-> journeys,
                 passengers |-> passengers,
                 payment |-> payment,
                 success |-> HasValidTicketData(pnr, passengers, journeys),
                 page_number |-> page_number,
                 extraction_metadata |->
                     [page_number |-> page_number,
                      extraction_method |-> "enhanced_pdf_single_page",
                      extracted_at |-> now,
                      stats |-> [total_pages |-> 1,
                                 passengers_extracted |-> Len(passengers),
                                 fields_extracted |-> fields_extracted,
                                 journeys_found |-> Len(journeys)]]]
    IN  IF Len(journeys) > 0
        THEN Put(Put(Put(base, "journey_metadata", AnalyzeJourneyPatterns(journeys)),
                     "from_station", journeys[1].boarding),
                 "to_station", journeys[1].destination)
        ELSE base

\* the record parse_ticket_text_single_page returns for the fields it extracted
TicketRecord(pnr, transaction_id, ticket_print_time, journeys, passengers, payment, fields_extracted, page_number, now) ==
    LET base == [pnr |-> pnr,
                 transaction_id |-> transaction_id,
                 ticket_print_time |-> ticket_print_time,
                 journeys |-> journeys,
                 passengers |-> passengers,
                 payment |-> payment,
                 success |-> HasValidTicketData(pnr, passengers, journeys),
                 page_number |-> page_number,
                 extraction_metadata |->
                     [page_number |-> page_number,
                      extraction_method |-> "enhanced_pdf_single_page",
                      extracted_at |-> now,
                      stats |-> [total_pages |-> 1,
                                 passengers_extracted |-> Len(passengers),
                                 fields_extracted |-> fields_extracted,
                                 journeys_found |-> Len(journeys)]]]
    IN  IF Len(journeys) > 0
        THEN Put(base, "journey_metadata", AnalyzeJourneyPatterns(journeys))
        ELSE base

\* parse_ticket_text_single_page from the results of the extractors on
\* (raw is what extract_passengers returned)
ParseFields(pnr, transaction_id, ticket_print_time, journeys, raw, payment, page_number, now) ==
    TicketRecord(pnr, transaction_id, ticket_print_time, journeys,
                 IF Len(raw) > 0 THEN EnhancePassengerData(raw, payment) ELSE raw,
                 payment,
                 FieldsExtracted(pnr, transaction_id, ticket_print_time, journeys, raw, payment),
                 page_number, now)

\* a parse that numbers every page 1
ParseTicketAsFirstPage(lines, page_number, now) ==
    ParseFields(ExtractPnr(lines), ExtractTransactionId(lines), ExtractPrintTime(lines),
                ExtractJourneyInfo(lines), ExtractPassengers(lines),
                ExtractPaymentDetails(lines), 1, now)

\* parse_ticket_text_single_page(lines, page_number), datetime.now() reading now
ParseTicket(lines, page_number, now) ==
    ParseFields(ExtractPnr(lines), ExtractTransactionId(lines), ExtractPrintTime(lines),
                ExtractJourneyInfo(lines), ExtractPassengers(lines),
                ExtractPaymentDetails(lines), page_number, now)

\* ------------------------------------------------------------------------
\* Documents: the text the provider returns for a page is a ticket layout
\* whose blocks are each absent or present in one of a few variants
\* ------------------------------------------------------------------------

\* the most passengers a modelled page lists
MaxPassengers == 2

\* the most pages a modelled document has
MaxPages == 3

\* identifier block: checksum-valid, checksum-invalid, value on the next line
PnrBlocks ==
    { <<>>,
      <<"PNR: 1234567894">>,
      <<"PNR: 6234567891">>,
      <<"PNR:", "1234567890">> }

TransactionBlocks ==
    { <<>>,
      <<"Transaction ID: 100004581234567">>,
      <<"Transaction ID: 100004581234567", "Ticket Printing Time", "31-12-2023 09:15:00">> }

TrainLines ==
    <<"Train No./Name", "12956 - JP MMCT SF EXP", "Class", "SLEEPER CLASS (SL)",
      "Distance", "693 KM">>

StationLines ==
    <<"Booked From", "NEW DELHI (NDLS)", "Departure* 01-01-2024 22:10:00",
      "To", "RATLAM JN (-)", "Arrival* 02-01-2024 06:35:00">>

JourneyBlocks == { <<>>, TrainLines, StationLines, TrainLines \o StationLines }

\* the detail records of the passenger-details section: age, gender, food, status
DetailRecords ==
    << <<"34", "Male", "Veg", "CNF/S1/12/LOWER">>,
       <<"45", "NA", "Non-Veg", "RAC/9">>,
       <<"61", "Female", "-", "RLWL/4">>,
       <<"7", "Male", "JAIN", "WL/11">> >>

\* the numbered name list
NameLines == <<"1. SUKH", "2. RAJ KUMAR", "3. SITA DEVI", "4. BANSAL">>

\* the k-th entry of a list, cycling when k is past its end
Cyclic(list, k) == list[((k - 1) % Len(list)) + 1]

RECURSIVE DetailBlock(_)
\* the lines of the first k detail records
DetailBlock(k) == IF k = 0 THEN <<>> ELSE DetailBlock(k - 1) \o Cyclic(DetailRecords, k)

DetailBlocks == { <<>> } \cup { <<"Passenger Details:">> \o DetailBlock(k) : k \in 0..MaxPassengers }

PaymentBlocks ==
    { <<>>,
      <<"Payment Details", "Ticket Fare", "480.00", "IRCTC Convenience Fee (Incl. of GST)",
        "17.70", "Total Fare (all inclusive)", "497.70">> }

NameBlocks == { [i \in 1..k |-> Cyclic(NameLines, i)] : k \in 0..MaxPassengers }

\* every page text of the model
PageTexts ==
    { b1 \o b2 \o b3 \o b4 \o b5 \o b6 :
        b1 \in PnrBlocks, b2 \in TransactionBlocks, b3 \in JourneyBlocks,
        b4 \in DetailBlocks, b5 \in PaymentBlocks, b6 \in NameBlocks }

\* ------------------------------------------------------------------------
\* Validation and scoring engine.  A score is a whole number of points; the
\* overall score is the exact fraction [num, den] of the float the code holds.
\* ------------------------------------------------------------------------

\* load_station_codes: the keys of the station directory
station_codes == {"NDLS", "BCT", "MAS", "HWH", "RTM", "BRC", "JP", "ADI"}

\* weights of validate_pnr_checksum
weights == <<2, 3, 4, 5, 6, 7, 2, 3, 4>>

RECURSIVE WeightedSum(_, _)
\* sum(digit * weight for digit, weight in zip(digits[:-1], weights)) from index i on
WeightedSum(pnr, i) ==
    IF i > Len(weights) THEN 0
    ELSE DigitVal(Ch(pnr, i)) * weights[i] + WeightedSum(pnr, i + 1)

\* a checksum validation that accepts every 10-digit string
ValidatePnrFormatOnly(pnr) ==
    IF ~Truthy(pnr) \/ Len(pnr) # 10 \/ ~AllDigits(pnr, 1, Len(pnr)) THEN <<FALSE, 0>>
    ELSE <<TRUE, 100>>

\* validate_pnr_checksum: <<is_valid, score>>
ValidatePnrChecksum(pnr) ==
    IF ~Truthy(pnr) \/ Len(pnr) # 10 \/ ~AllDigits(pnr, 1, Len(pnr)) THEN <<FALSE, 0>>
    ELSE LET checksum == (10 - (WeightedSum(pnr, 1) % 10)) % 10
         IN  IF checksum = DigitVal(Ch(pnr, 10)) THEN <<TRUE, 100>>
             ELSE IF Ch(pnr, 1) \in {"1", "2", "3", "4", "8", "9"} THEN <<FALSE, 85>>
             ELSE <<FALSE, 70>>

\* load_train_database: the keys of the train directory, kept in self.train_database
train_database == {"20958", "20946", "12956"}

\* the message of the AttributeError that reading self.train_numbers raises
\* (__init__ sets train_database, never train_numbers)
TrainNumbersError == "'EnhancedIRCTCTicketExtractor' object has no attribute 'train_numbers'"

\* validate_train_number: [raised, error, valid, score]
ValidateTrainNumber(train_number) ==
    IF ~Truthy(train_number)
    THEN [raised |-> FALSE, error |-> None, valid |-> FALSE, score |-> 0]
    ELSE IF ~AllDigits(train_number, 1, Len(train_number)) \/ Len(train_number) # 5
    THEN [raised |-> FALSE, error |-> None, valid |-> FALSE, score |-> 30]
    ELSE [raised |-> TRUE, error |-> TrainNumbersError, valid |-> FALSE, score |-> 0]

\* a station validation that accepts every well-formed code
ValidateStationCodeFormatOnly(station_code) ==
    IF ~Truthy(station_code) THEN <<FALSE, 0>>
    ELSE IF \E k \in 1..Len(station_code) : ~IsUpper(Ch(station_code, k)) THEN <<FALSE, 20>>
    ELSE IF Len(station_code) < 2 \/ Len(station_code) > 5 THEN <<FALSE, 30>>
    ELSE <<TRUE, 100>>

\* validate_station_code: <<is_valid, score>>
ValidateStationCode(station_code) ==
    IF ~Truthy(station_code) THEN <<FALSE, 0>>
    ELSE IF \E k \in 1..Len(station_code) : ~IsUpper(Ch(station_code, k)) THEN <<FALSE, 20>>
    ELSE IF Len(station_code) < 2 \/ Len(station_code) > 5 THEN <<FALSE, 30>>
    ELSE IF station_code \in station_codes THEN <<TRUE, 100>>
    ELSE <<FALSE, 60>>

\* corrections of correct_station_code
OcrCorrection(c) ==
    CASE c = "O" -> "0" [] c = "I" -> "1" [] c = "S" -> "5" [] c = "B" -> "8" [] OTHER -> c

RECURSIVE ReplaceOcr(_)
ReplaceOcr(s) == IF s = "" THEN "" ELSE OcrCorrection(Ch(s, 1)) \o ReplaceOcr(From(s, 2))

\* correct_station_code: the corrected code, or None
CorrectStationCode(station_code) ==
    IF ~Truthy(station_code) THEN None
    ELSE IF ReplaceOcr(station_code) \in station_codes THEN ReplaceOcr(station_code)
    ELSE None

\* validate_passenger_data: <<is_valid, percentage>>
ValidatePassengerData(p) ==
    LET score ==
            (IF Truthy(p.name) /\ Len(p.name) > 1 THEN 1 ELSE 0)
          + (IF TruthyNum(p.age) /\ p.age >= 1 /\ p.age <= 120 THEN 1 ELSE 0)
          + (IF p.gender \in {"Male", "Female", "Transgender"} THEN 1 ELSE 0)
          + (IF p.food_choice \in {"Veg", "Non-Veg", "JAIN"} \/ p.food_choice = None THEN 1 ELSE 0)
          + (IF Truthy(p.booking_status)
                /\ \E st \in {"CNF", "RAC", "WL"} : Contains(p.booking_status, st) THEN 1 ELSE 0)
    IN  <<score * 20 >= 80, score * 20>>

\* d.get(k, 0) for a payment dict: the stored value (None included), 0 for a missing key
GetOrZero(d, k) == IF k \in DOMAIN d THEN d[k] ELSE 0

\* the message of the TypeError that adding None to a number raises
NoneAddError == "unsupported operand type(s) for +: 'float' and 'NoneType'"

\* perform_cross_validations: [raised, error, validations]
PerformCrossValidations(td) ==
    LET v1 == IF /\ HasStr(td, "journey_date")
                 /\ "from_station" \in DOMAIN td /\ td.from_station # EmptyDict
                 /\ Truthy(DateTimeOf(td.from_station))
              THEN [date_time_consistency |->
                       [valid |-> Contains(td.from_station.datetime, td.journey_date),
                        details |-> "Journey date " \o td.journey_date \o " vs departure "
                                    \o td.from_station.datetime]]
              ELSE EmptyDict
        count == IF "passengers" \in DOMAIN td THEN Len(td.passengers) ELSE 0
        v2 == IF count > 0
              THEN Put(v1, "passenger_count",
                       [valid |-> 1 <= count /\ count <= 6,
                        details |-> "Found " \o ToStr(count) \o " passengers"])
              ELSE v1
        payment == IF "payment_details" \in DOMAIN td THEN td.payment_details ELSE EmptyDict
        checked == /\ "total" \in DOMAIN payment /\ TruthyNum(payment.total)
                   /\ "ticket_fare" \in DOMAIN payment /\ TruthyNum(payment.ticket_fare)
        parts == <<payment.ticket_fare, GetOrZero(payment, "irctc_fee"),
                   GetOrZero(payment, "insurance"), GetOrZero(payment, "agent_fee"),
                   GetOrZero(payment, "pg_charges")>>
        calculated == parts[1] + parts[2] + parts[3] + parts[4] + parts[5]
        difference == IF payment.total >= calculated THEN payment.total - calculated
                      ELSE calculated - payment.total
    IN  IF ~checked THEN [raised |-> FALSE, error |-> None, validations |-> v2]
        ELSE IF \E k \in 1..5 : parts[k] = NoneNum
        THEN [raised |-> TRUE, error |-> NoneAddError, validations |-> v2]
        ELSE [raised |-> FALSE, error |-> None,
              validations |-> Put(v2, "payment_calculation",
                                  [valid |-> difference < 100,
                                   details |-> [total |-> payment.total,
                                                calculated |-> calculated]])]

\* corrections that blank the identifier
BlankPnr(td, validation_result) == [td EXCEPT !.pnr = None]

\* apply_automatic_corrections: its body is pass
ApplyAutomaticCorrections(td, validation_result) == td

\* step 1 of validate_extracted_data: the entries the identifier adds
PnrValidation(td) ==
    IF HasStr(td, "pnr")
    THEN LET r == ValidatePnrChecksum(td.pnr)
         IN  [fields |-> [pnr |-> [valid |-> r[1], score |-> r[2], value |-> td.pnr]],
              scores |-> <<r[2]>>,
              anomalies |-> IF r[1] THEN <<>> ELSE <<"Invalid PNR checksum: " \o td.pnr>>]
    ELSE [fields |-> EmptyDict, scores |-> <<>>, anomalies |-> <<>>]

\* step 2 of validate_extracted_data, when validate_train_number returns
TrainValidation(td) ==
    IF HasStr(td, "train_number")
    THEN LET r == ValidateTrainNumber(td.train_number)
         IN  [fields |-> [train_number |->
                             [valid |-> r.valid, score |-> r.score, value |-> td.train_number]],
              scores |-> <<r.score>>,
              anomalies |-> IF r.valid THEN <<>>
                            ELSE <<"Unknown train number: " \o td.train_number>>]
    ELSE [fields |-> EmptyDict, scores |-> <<>>, anomalies |-> <<>>]

\* step 3 of validate_extracted_data applies to this station field of the record
StationChecked(td, f) ==
    /\ f \in DOMAIN td /\ td[f] # EmptyDict
    /\ "station" \in DOMAIN td[f] /\ Truthy(td[f].station)

\* step 3 of validate_extracted_data for one station field: the entries it adds and
\* the record after the in-place correction
StationValidation(td, f) ==
    IF StationChecked(td, f)
    THEN LET code == td[f].station
             r == ValidateStationCode(code)
             corrected == CorrectStationCode(code)
             fixed == ~r[1] /\ corrected # None
         IN  [fields |-> Put(EmptyDict, f \o "_code",
                             [valid |-> r[1], score |-> r[2], value |-> code]),
              scores |-> <<r[2]>>,
              anomalies |-> IF r[1] THEN <<>> ELSE <<"Unknown station code: " \o code>>,
              corrections |-> IF fixed THEN <<"Corrected " \o code \o " -> " \o corrected>>
                              ELSE <<>>,
              td |-> IF fixed THEN [td EXCEPT ![f] = Put(td[f], "station", corrected)] ELSE td]
    ELSE [fields |-> EmptyDict, scores |-> <<>>, anomalies |-> <<>>, corrections |-> <<>>,
          td |-> td]

\* a gender inference that also overwrites a gender that is present
OverwriteGender(p) ==
    IF Truthy(p.name) /\ InferGenderFromName(p.name) # None
    THEN [p EXCEPT !.gender = InferGenderFromName(p.name)]
    ELSE p

\* step 4 of validate_extracted_data: the passenger after the gender inference
InferGenderInPlace(p) ==
    IF ~Truthy(p.gender) /\ Truthy(p.name) /\ InferGenderFromName(p.name) # None
    THEN [p EXCEPT !.gender = InferGenderFromName(p.name)]
    ELSE p

\* step 4 of validate_extracted_data: the passengers list after the loop
PassengersAfterValidation(td) ==
    IF "passengers" \in DOMAIN td
    THEN [i \in 1..Len(td.passengers) |-> InferGenderInPlace(td.passengers[i])]
    ELSE <<>>

\* step 4 of validate_extracted_data: the entries the passengers add ('data' is the
\* passenger dict itself, so it shows the gender inferred after the entry was made)
PassengerValidation(td) ==
    LET ps == IF "passengers" \in DOMAIN td THEN td.passengers ELSE <<>>
        n == Len(ps)
        after == PassengersAfterValidation(td)
    IN  [fields |-> [k \in {"passenger_" \o ToStr(i) : i \in 1..n} |->
                        LET i == CHOOSE j \in 1..n : k = "passenger_" \o ToStr(j)
                            r == ValidatePassengerData(ps[i])
                        IN  [valid |-> r[1], score |-> r[2], data |-> after[i]]],
         scores |-> [i \in 1..n |-> ValidatePassengerData(ps[i])[2]],
         corrections |-> [i \in 1..n |->
                            IF after[i] # ps[i]
                            THEN <<"Inferred gender for " \o ps[i].name \o ": " \o after[i].gender>>
                            ELSE <<>>]]

RECURSIVE SumSeq(_)
SumSeq(q) == IF q = <<>> THEN 0 ELSE Head(q) + SumSeq(Tail(q))

RECURSIVE Flatten(_)
Flatten(q) == IF q = <<>> THEN <<>> ELSE Head(q) \o Flatten(Tail(q))

\* dict.update: d with the entries of e
Merge(d, e) == [k \in (DOMAIN d) \cup (DOMAIN e) |-> IF k \in DOMAIN e THEN e[k] ELSE d[k]]

\* overall_score: 0, or (total_score / field_count) * 100
OverallScore(scores) ==
    IF Len(scores) > 0 THEN [num |-> SumSeq(scores) * 100, den |-> Len(scores)]
    ELSE [num |-> 0, den |-> 1]

\* validation_result of validate_extracted_data from what its steps recorded
ValidationResult(s1, s2, s3a, s3b, s4, cross) ==
    [overall_score |->
         OverallScore(s1.scores \o s2.scores \o s3a.scores \o s3b.scores \o s4.scores),
     field_validations |->
         Merge(Merge(Merge(Merge(s1.fields, s2.fields), s3a.fields), s3b.fields), s4.fields),
     cross_validations |-> cross.validations,
     anomalies |-> s1.anomalies \o s2.anomalies \o s3a.anomalies \o s3b.anomalies,
     corrections_applied |-> s3a.corrections \o s3b.corrections \o Flatten(s4.corrections)]

\* step 2 of validate_extracted_data raises
TrainRaises(td) ==
    HasStr(td, "train_number") /\ ValidateTrainNumber(td.train_number).raised

\* validate_extracted_data after its steps: it raised in step 2 (the record as
\* given) or in step 5 (the record as changed by then), or it returns
ValidationOutcome(td, td4, cross, result) ==
    IF TrainRaises(td)
    THEN [raised |-> TRUE, error |-> TrainNumbersError, td |-> td, result |-> EmptyDict]
    ELSE IF cross.raised
    THEN [raised |-> TRUE, error |-> cross.error, td |-> td4, result |-> EmptyDict]
    ELSE [raised |-> FALSE, error |-> None,
          td |-> ApplyAutomaticCorrections(td4, result), result |-> result]

\* validate_extracted_data from step 5 on: td4 is the record after step 4
AfterPassengers(td, s3a, s3b, s4, td4, cross) ==
    ValidationOutcome(td, td4, cross,
        ValidationResult(PnrValidation(td), TrainValidation(td), s3a, s3b, s4, cross))

\* the record after step 4 of validate_extracted_data
WithPassengersValidated(td) ==
    IF "passengers" \in DOMAIN td
    THEN [td EXCEPT !.passengers = PassengersAfterValidation(td)]
    ELSE td

\* validate_extracted_data from step 4 on: td3 is the record after step 3
AfterStations(td, s3a, s3b, td3) ==
    AfterPassengers(td, s3a, s3b, PassengerValidation(td3), WithPassengersValidated(td3),
                    PerformCrossValidations(WithPassengersValidated(td3)))

\* validate_extracted_data from the second station field on
AfterFromStation(td, s3a) ==
    AfterStations(td, s3a, StationValidation(s3a.td, "to_station"),
                  StationValidation(s3a.td, "to_station").td)

\* validate_extracted_data: [raised, error, td (the record after the in-place
\* changes made so far), result (validation_result)]
ValidateExtractedData(ticket_data) ==
    AfterFromStation(ticket_data, StationValidation(ticket_data, "from_station"))

\* ------------------------------------------------------------------------
\* Quality score and audit trail
\* ------------------------------------------------------------------------

\* the points calculate_quality_score gives a core field of the record
CoreFieldPoints(td, f) ==
    IF f \notin DOMAIN td THEN 0
    ELSE IF f \in {"passengers", "journeys"} THEN (IF Len(td[f]) > 0 THEN 20 ELSE 0)
    ELSE IF f = "payment" THEN (IF td[f] # EmptyDict THEN 20 ELSE 0)
    ELSE IF Truthy(td[f]) THEN 20 ELSE 0

\* calculate_quality_score: round((score / max_score) * 100) with max_score = 100
CalculateQualityScore(td) ==
    CoreFieldPoints(td, "pnr") + CoreFieldPoints(td, "transaction_id")
  + CoreFieldPoints(td, "passengers") + CoreFieldPoints(td, "journeys")
  + CoreFieldPoints(td, "payment")

\* the keys a record can hold, in the order the code inserts them
KeyOrder ==
    <<"pnr", "transaction_id", "ticket_print_time", "journeys", "passengers", "payment",
      "success", "page_number", "journey_metadata", "extraction_metadata", "validation">>

\* list(ticket_data.keys())
KeysOf(td) == SelectSeq(KeyOrder, LAMBDA k : k \in DOMAIN td)

\* generate_audit_trail
GenerateAuditTrail(td, validate_flag, stats) ==
    [fields_extracted |-> KeysOf(td),
     passenger_count |-> IF "passengers" \in DOMAIN td THEN Len(td.passengers) ELSE 0,
     journey_count |-> IF "journeys" \in DOMAIN td THEN Len(td.journeys) ELSE 0,
     payment_fields |-> IF "payment" \in DOMAIN td THEN Cardinality(DOMAIN td.payment) ELSE 0,
     validation_enabled |-> validate_flag,
     extraction_stats |-> stats]

\* ------------------------------------------------------------------------
\* Documents and the other inputs of the extractor
\* ------------------------------------------------------------------------

\* page_text.split('\n') of a page text whose lines each end with a newline:
\* the lines, then the empty string after the last newline
SplitLines(text) == text \o <<"">>

\* a page the provider cannot load: doc[n] or get_text() raises
Unreadable == <<None>>

\* str(e) of what fitz.open raises for a file it cannot open
OpenError == "cannot open document"

\* str(e) of what the provider raises for an unreadable page
PageLoadError == "cannot load page"

\* str(e) of the IndexError of doc[0] on a document without pages
PageIndexError == "page not in document"

\* str(e) of an exception the interpreter raises inside a stage
StageFault == "maximum recursion depth exceeded"

\* the pdf_path argument
PdfPath == "ticket.pdf"

\* a ticket page of one passenger
TicketA ==
    <<"PNR: 1234567894">> \o TrainLines \o StationLines
        \o <<"Passenger Details:">> \o DetailBlock(1) \o <<"1. SUKH">>

\* a ticket page of another booking, its identifier on the line after the label
TicketB ==
    <<"PNR:", "1234567890">> \o StationLines
        \o <<"Passenger Details:">> \o DetailBlock(1) \o <<"1. SUKH">>

\* a page with identifier and journey whose passenger has no name line
Nameless ==
    <<"PNR: 1234567894">> \o TrainLines \o StationLines
        \o <<"Passenger Details:">> \o DetailBlock(1)

\* the pages of the documents that have more than one page
BookPages == {TicketA, TicketB, Nameless, <<>>, Unreadable}

\* the documents handed to extract_from_pdf
Documents ==
    {[openable |-> FALSE, pages |-> <<>>], [openable |-> TRUE, pages |-> <<>>]}
    \cup {[openable |-> TRUE, pages |-> <<p>>] : p \in PageTexts \cup {Unreadable}}
    \cup {[openable |-> TRUE, pages |-> ps] : ps \in UNION {[1..n -> BookPages] : n \in 2..MaxPages}}

\* d with d[k] = opt[1] when the optional value opt is present
WithKey(d, k, opt) == IF opt = <<>> THEN d ELSE Put(d, k, opt[1])

\* a passenger dict as extract_passengers builds it
Passenger(sno, name, age, gender, food, status) ==
    [sno |-> sno, name |-> name, age |-> age, gender |-> gender, food_choice |-> food,
     booking_status |-> status, current_status |-> status]

\* the passenger lists of the records handed to validate_extracted_data directly
PassengerLists ==
    { <<>>,
      <<Passenger(1, "RAJ KUMAR", 34, None, "Veg", "CNF/S1/12")>>,
      <<Passenger(1, "SUKH", NoneNum, None, None, None),
        Passenger(2, "SITA DEVI", 61, "Male", "-", "CAN")>> }

\* the payment_details of the records handed to validate_extracted_data directly
PaymentDetails ==
    { <<>>,
      <<[total |-> 49770, ticket_fare |-> 48000, irctc_fee |-> 1770]>>,
      <<[total |-> 60000, ticket_fare |-> 48000, irctc_fee |-> 1770, insurance |-> 45,
         agent_fee |-> 2000, pg_charges |-> 1000]>>,
      <<[total |-> 49770, ticket_fare |-> 48000, irctc_fee |-> 1770, insurance |-> NoneNum,
         agent_fee |-> NoneNum, pg_charges |-> NoneNum]>> }

\* the records handed to validate_extracted_data directly
ValidateInputs ==
    { WithKey(WithKey(WithKey(WithKey(WithKey(
          [pnr |-> pnr, transaction_id |-> "100004581234567", passengers |-> ps,
           journeys |-> <<>>, success |-> FALSE],
          "train_number", tn), "from_station", fs), "to_station", ts),
          "payment_details", pay), "journey_date", jd) :
        pnr \in {None, "1234567894", "6234567891"},
        tn \in {<<>>, <<"12956">>, <<"1295A">>},
        fs \in {<<>>, <<[station |-> "NDLS", datetime |-> "01-01-2024 22:10:00"]>>,
                <<[station |-> "BOGUS1"]>>, <<[station |-> "ndls"]>>},
        ts \in {<<>>, <<[station |-> "XYZ"]>>},
        ps \in PassengerLists,
        pay \in PaymentDetails,
        jd \in {<<>>, <<"01-01-2024">>} }

\* ------------------------------------------------------------------------
\* The extractor as a state machine: one instance, one call
\* ------------------------------------------------------------------------

VARIABLES
    validate,          \* self.validate
    extraction_stats,  \* self.extraction_stats
    entry,             \* the method the caller invoked
    pc,                \* where the call stands
    doc,               \* the pages of the opened document
    doc_open,          \* the document handle is open
    page_num,          \* pages processed by the loop
    all_tickets,       \* all_tickets of extract_from_pdf
    ticket_data,       \* ticket_data of the running method
    result,            \* what the call returned
    exc,               \* str(e) of the exception raised in the call, or None
    clock,             \* readings of datetime.now() so far
    calls,             \* history: the steps the call performed, in order
    page_records,      \* history: the record parsed from each page, in order
    given,             \* history: the record as handed to validation
    earlier,           \* the caller's side: the documents of the earlier calls of
                       \* extract_from_pdf on this instance and the records they returned
    scan               \* the locals of the details loop of extract_passengers

vars ==
    <<validate, extraction_stats, entry, pc, doc, doc_open, page_num, all_tickets,
      ticket_data, result, exc, clock, calls, page_records, given, earlier,
      scan>>

\* __init__
Init ==
    /\ validate \in BOOLEAN
    /\ extraction_stats =
           [total_pages |-> 0, text_blocks_found |-> 0, passengers_extracted |-> 0,
            fields_extracted |-> 0, validation_score |-> [num |-> 0, den |-> 1],
            anomalies_detected |-> 0]
    /\ entry = "none"
    /\ pc = "idle"
    /\ doc = <<>>
    /\ doc_open = FALSE
    /\ page_num = 0
    /\ all_tickets = <<>>
    /\ ticket_data = EmptyDict
    /\ result = EmptyDict
    /\ exc = None
    /\ clock = 0
    /\ calls = <<>>
    /\ page_records = <<>>
    /\ given = EmptyDict
    /\ earlier = <<>>
    /\ scan = EmptyDict

\* an outer handler that misses the exceptions of the metadata step
OnRaiseEscapes(stage) == IF stage = "metadata" THEN "raised" ELSE "except"

\* where an exception raised in the try block of extract_from_pdf goes:
\* the inner handlers re-raise, the outer handler catches every Exception
OnRaise(stage) == "except"

\* a branch test that sends every document down the single-page branch
RouteSingle(page_count) == "single"

\* the branch extract_from_pdf takes for a document of page_count pages
Route(page_count) == IF page_count > 1 THEN "pages" ELSE "single"

\* a single-page branch that never validates
AfterParseSkips(validate_flag) == "metadata"

\* the step after the single-page parse
AfterParse(validate_flag) == IF validate_flag THEN "validate" ELSE "metadata"

\* an extract_passengers that writes its count on every page
StatsAfterParseAlways(stats, lines, td) ==
    [stats EXCEPT !.passengers_extracted = Len(td.passengers)]

\* the write of extract_passengers to the statistics: reached only past the
\* passenger-details anchor, with the length of the list it returns
StatsAfterParse(stats, lines, td) ==
    IF PassengerStartIdx(lines) # 0
    THEN [stats EXCEPT !.passengers_extracted = Len(td.passengers)]
    ELSE stats

\* the writes of validation to the statistics
StatsAfterValidation(stats, validation_result) ==
    [stats EXCEPT !.validation_score = validation_result.overall_score,
                  !.anomalies_detected = Len(validation_result.anomalies)]

\* a selection that returns the first ticket whenever there is one
SelectFirst(tickets, page_count, now) ==
    IF Len(tickets) >= 1 THEN tickets[1]
    ELSE [success |-> FALSE,
          error |-> "No valid ticket data found in " \o ToStr(page_count) \o " pages"]

\* what the multi-page branch returns for the tickets it collected
SelectResult(tickets, page_count, now) ==
    IF Len(tickets) = 1 THEN tickets[1]
    ELSE IF Len(tickets) > 1
    THEN [multi_booking |-> TRUE,
          booking_count |-> Len(tickets),
          bookings |-> tickets,
          success |-> TRUE,
          extraction_metadata |->
              [pdf_path |-> PdfPath,
               extraction_method |-> "enhanced_pdf_multi_booking",
               extracted_at |-> now,
               total_pages |-> page_count,
               bookings_found |-> Len(tickets)]]
    ELSE [success |-> FALSE,
          error |-> "No valid ticket data found in " \o ToStr(page_count) \o " pages"]

\* an extraction_metadata whose quality score depends on the time of the call
DirectMetadataTimed(td, validate_flag, stats, now) ==
    [pdf_path |-> PdfPath,
     extraction_method |-> "enhanced_pdf_direct",
     extracted_at |-> now,
     stats |-> stats,
     quality_score |-> CalculateQualityScore(td) + now,
     audit_trail |-> GenerateAuditTrail(td, validate_flag, stats)]

\* the extraction_metadata of a single-page record
DirectMetadata(td, validate_flag, stats, now) ==
    [pdf_path |-> PdfPath,
     extraction_method |-> "enhanced_pdf_direct",
     extracted_at |-> now,
     stats |-> stats,
     quality_score |-> CalculateQualityScore(td),
     audit_trail |-> GenerateAuditTrail(td, validate_flag, stats)]

\* what the outer handler returns
FailureResult(message) ==
    [error |-> message, extraction_method |-> "pdf_direct", success |-> FALSE]

\* an exception with this message is raised at this stage of extract_from_pdf
Raise(stage, message) ==
    /\ exc' = message
    /\ pc' = OnRaise(stage)

\* extract_from_pdf is called: fitz.open, the page count, the branch
FitzOpen(d) ==
    /\ pc = "idle"
    /\ entry' = "extract_from_pdf"
    /\ IF d.openable
       THEN /\ doc' = d.pages
            /\ doc_open' = TRUE
            /\ extraction_stats' = [extraction_stats EXCEPT !.total_pages = Len(d.pages)]
            /\ pc' = Route(Len(d.pages))
            /\ exc' = exc
       ELSE /\ Raise("open", OpenError)
            /\ UNCHANGED <<doc, doc_open, extraction_stats>>
    /\ UNCHANGED <<scan, earlier, validate, page_num, all_tickets, ticket_data, result, clock, calls,
                   page_records, given>>

\* one iteration of the page loop
ParsePage(fault) ==
    /\ pc = "pages"
    /\ page_num < Len(doc)
    /\ IF doc[page_num + 1] = Unreadable \/ fault
       THEN /\ Raise("parse", IF doc[page_num + 1] = Unreadable THEN PageLoadError ELSE StageFault)
            /\ calls' = IF fault /\ doc[page_num + 1] # Unreadable THEN Append(calls, "parse")
                        ELSE calls
            /\ UNCHANGED <<extraction_stats, page_num, all_tickets, ticket_data, clock,
                           page_records>>
       ELSE /\ ticket_data' = ParseTicket(SplitLines(doc[page_num + 1]), page_num + 1, clock)
            /\ all_tickets' = IF ticket_data'.success THEN Append(all_tickets, ticket_data')
                              ELSE all_tickets
            /\ extraction_stats' =
                   StatsAfterParse(extraction_stats, SplitLines(doc[page_num + 1]), ticket_data')
            /\ page_num' = page_num + 1
            /\ clock' = clock + 1
            /\ calls' = Append(calls, "parse")
            /\ page_records' = Append(page_records, ticket_data')
            /\ UNCHANGED <<pc, exc>>
    /\ UNCHANGED <<scan, earlier, validate, entry, doc, doc_open, result, given>>

\* after the loop: the selection, doc.close() and the return
ReturnBookings ==
    /\ pc = "pages"
    /\ page_num = Len(doc)
    /\ ticket_data' = SelectResult(all_tickets, Len(doc), clock)
    /\ clock' = IF Len(all_tickets) > 1 THEN clock + 1 ELSE clock
    /\ doc_open' = FALSE
    /\ result' = ticket_data'
    /\ pc' = "returned"
    /\ UNCHANGED <<scan, earlier, validate, extraction_stats, entry, doc, page_num, all_tickets, exc, calls,
                   page_records, given>>

\* the single-page branch: doc[0].get_text() and the parse
ParseSinglePage(fault) ==
    /\ pc = "single"
    /\ IF Len(doc) = 0 \/ doc[1] = Unreadable \/ fault
       THEN /\ Raise("parse", IF Len(doc) = 0 THEN PageIndexError
                              ELSE IF doc[1] = Unreadable THEN PageLoadError ELSE StageFault)
            /\ calls' = IF Len(doc) # 0 /\ doc[1] # Unreadable THEN Append(calls, "parse")
                        ELSE calls
            /\ UNCHANGED <<extraction_stats, ticket_data, clock, page_records, given>>
       ELSE /\ ticket_data' = ParseTicket(SplitLines(doc[1]), 1, clock)
            /\ extraction_stats' = StatsAfterParse(extraction_stats, SplitLines(doc[1]), ticket_data')
            /\ clock' = clock + 1
            /\ calls' = Append(calls, "parse")
            /\ page_records' = Append(page_records, ticket_data')
            /\ given' = ticket_data'
            /\ pc' = AfterParse(validate)
            /\ exc' = exc
    /\ UNCHANGED <<scan, earlier, validate, entry, doc, doc_open, page_num, all_tickets, result>>

\* the validation step of the single-page branch
Validate(fault) ==
    /\ pc = "validate"
    /\ calls' = Append(calls, "validate")
    /\ IF fault
       THEN /\ Raise("validation", StageFault)
            /\ UNCHANGED <<extraction_stats, ticket_data>>
       ELSE \E v \in {ValidateExtractedData(ticket_data)} :
                IF v.raised
                THEN /\ Raise("validation", v.error)
                     /\ ticket_data' = v.td
                     /\ UNCHANGED extraction_stats
                ELSE /\ ticket_data' =
                            ApplyAutomaticCorrections(Put(v.td, "validation", v.result), v.result)
                     /\ extraction_stats' = StatsAfterValidation(extraction_stats, v.result)
                     /\ pc' = "metadata"
                     /\ exc' = exc
    /\ UNCHANGED <<scan, earlier, validate, entry, doc, doc_open, page_num, all_tickets, result, clock,
                   page_records, given>>

\* the metadata step of the single-page branch, doc.close() and the return
AddMetadata(fault) ==
    /\ pc = "metadata"
    /\ IF fault
       THEN /\ Raise("metadata", StageFault)
            /\ calls' = Append(calls, "quality")
            /\ UNCHANGED <<ticket_data, result, clock, doc_open>>
       ELSE /\ ticket_data' =
                   Put(ticket_data, "extraction_metadata",
                       DirectMetadata(ticket_data, validate, extraction_stats, clock))
            /\ clock' = clock + 1
            /\ calls' = calls \o <<"quality", "audit">>
            /\ doc_open' = FALSE
            /\ result' = ticket_data'
            /\ pc' = "returned"
            /\ exc' = exc
    /\ UNCHANGED <<scan, earlier, validate, extraction_stats, entry, doc, page_num, all_tickets,
                   page_records, given>>

\* the outer handler of extract_from_pdf
HandleException ==
    /\ pc = "except"
    /\ result' = FailureResult(exc)
    /\ pc' = "returned"
    /\ UNCHANGED <<scan, earlier, validate, extraction_stats, entry, doc, doc_open, page_num, all_tickets,
                   ticket_data, exc, clock, calls, page_records, given>>

\* validate_extracted_data is called directly on a record
CallValidate(record) ==
    /\ pc = "idle"
    /\ entry' = "validate_extracted_data"
    /\ given' = record
    /\ calls' = Append(calls, "validate")
    /\ \E v \in {ValidateExtractedData(record)} :
           /\ ticket_data' = v.td
           /\ IF v.raised
              THEN /\ exc' = v.error
                   /\ pc' = "raised"
                   /\ UNCHANGED <<result, extraction_stats>>
              ELSE /\ result' = v.result
                   /\ extraction_stats' = StatsAfterValidation(extraction_stats, v.result)
                   /\ pc' = "validated"
                   /\ exc' = exc
    /\ UNCHANGED <<scan, earlier, validate, doc, doc_open, page_num, all_tickets, clock, page_records>>

\* the caller hands a document to extract_from_pdf
ExtractFromPdf == pc = "idle" /\ \E d \in Documents : FitzOpen(d)

\* the caller hands a record to validate_extracted_data
ValidateExtractedDataCall == pc = "idle" /\ \E record \in ValidateInputs : CallValidate(record)

Next ==
    \/ ExtractFromPdf
    \/ \E fault \in BOOLEAN : ParsePage(fault)
    \/ ReturnBookings
    \/ \E fault \in BOOLEAN : ParseSinglePage(fault)
    \/ \E fault \in BOOLEAN : Validate(fault)
    \/ \E fault \in BOOLEAN : AddMetadata(fault)
    \/ HandleException
    \/ ValidateExtractedDataCall

Spec == Init /\ [][Next]_vars

\* ------------------------------------------------------------------------
\* Method calls: the caller invokes one method of the extractor on an argument
\* ------------------------------------------------------------------------

\* the first nine digits of the identifiers handed to validate_pnr_checksum
PnrPrefixes ==
    {"123456789", "623456789", "000000000", "999999999", "812345678", "512345670",
     "234567890", "345678901", "456789012", "765432109"}

\* the arguments of validate_pnr_checksum: 10-digit strings with every tenth digit,
\* and strings that are not 10 digits
PnrArguments ==
    {p \o d : p \in PnrPrefixes, d \in Digits}
    \cup {None, "", "12345", "12345678901", "12345A7894", "PNR1234567", "123456789 "}

\* a method called on an argument returns a value
Returns(method, argument, value) ==
    /\ entry' = method
    /\ given' = argument
    /\ result' = value
    /\ pc' = "done"
    /\ UNCHANGED <<scan, earlier, validate, doc, doc_open, page_num, all_tickets, ticket_data, exc, clock,
                   calls, page_records>>

\* the caller hands a string to validate_pnr_checksum
ValidatePnrChecksumCall ==
    /\ pc = "idle"
    /\ \E pnr \in PnrArguments : Returns("validate_pnr_checksum", pnr, ValidatePnrChecksum(pnr))
    /\ UNCHANGED extraction_stats

\* the most lines of a line sequence handed to extract_pnr
MaxPnrLines == 3

\* the lines the sequences handed to extract_pnr are drawn from
PnrLinePool ==
    {"PNR: 1234567890", "PNR:", "3456789012", "9876543210", "Mobile: 4567890123",
     "0123456789", "Booking 5678901234 ok", "12345678901", "Ticket",
     "9876543210 1234567890"}

\* the line sequences handed to extract_pnr
PnrLineSequences ==
    UNION {[1..k -> PnrLinePool] : k \in 0..MaxPnrLines}
    \cup { <<"PNR:", "1234567890">>,
           <<"PNR: ", " 2345678901 ">>,
           <<"PNR: 1234567890", "PNR: 2345678901">>,
           <<"PNR: pending", "note", "PNR 2345678901">>,
           <<"PNR:", "2345678901", "PNR: 1234567890">>,
           <<"9876543210 PNR: 1234567890">>,
           <<"PNR 123456789012">>,
           <<"For enquiry SMS PNR 1234567890 to 139">>,
           <<"PNR:", "Call 1234567890">>,
           <<"PNR: -", "x", "3456789012", "y", "z", "w">>,
           <<"a", "b", "c", "3456789012", "d", "e">> }

\* the caller hands a line sequence to extract_pnr
ExtractPnrCall ==
    /\ pc = "idle"
    /\ \E lines \in PnrLineSequences : Returns("extract_pnr", lines, ExtractPnr(lines))
    /\ UNCHANGED extraction_stats

\* the most names and the most detail records of a sequence handed to extract_passengers
MaxRosterSize == 3

\* the numbered name lists handed to extract_passengers
RosterNames ==
    { [i \in 1..k |-> Cyclic(NameLines, i)] : k \in 0..MaxRosterSize }
    \cup { <<"1. SUKH", "2. BANSAL">>, <<"1. SUKH", "2. 70.00", "3. TOTAL FARE">>,
           <<"2. RAJ KUMAR", "11. BANSAL">> }

\* the passenger-details sections handed to extract_passengers: absent, or the anchor
\* and a number of detail records, the last one complete or cut after the age
RosterDetails ==
    { <<>> }
    \cup { <<"Passenger Details:">> \o DetailBlock(k) : k \in 0..MaxRosterSize }
    \cup { <<"Passenger Details:">> \o DetailBlock(k) \o <<"52">> : k \in 0..(MaxRosterSize - 1) }

\* the line sequences handed to extract_passengers
RosterLines ==
    { n \o d : n \in RosterNames, d \in RosterDetails }
    \cup { d \o n : n \in RosterNames, d \in RosterDetails }

\* the caller hands a line sequence to extract_passengers
ExtractPassengersCall ==
    /\ pc = "idle"
    /\ \E lines \in RosterLines :
           /\ Returns("extract_passengers", lines, ExtractPassengers(lines))
           /\ extraction_stats' =
                  IF PassengerStartIdx(lines) # 0
                  THEN [extraction_stats EXCEPT
                            !.passengers_extracted = Len(ExtractPassengers(lines))]
                  ELSE extraction_stats

\* the most pages of a line sequence handed to extract_all_journeys
MaxJourneyPages == 3

\* the texts of a page of a multi-page line sequence: the journey of TrainLines and
\* StationLines, the same with another train name, with another quota and distance,
\* with another departure time, another journey, stations only, no journey
JourneyPages ==
    { TrainLines \o StationLines,
      <<"Train No./Name", "12956 - JAIPUR SF EXP", "Class", "SLEEPER CLASS (SL)",
        "Distance", "693 KM">> \o StationLines,
      <<"Train No./Name", "12956 - JP MMCT SF EXP", "Class", "SLEEPER CLASS (SL)",
        "Quota", "GENERAL (GN)", "Distance", "700 KM">> \o StationLines,
      TrainLines \o <<"Booked From", "NEW DELHI (NDLS)", "Departure* 03-01-2024 22:10:00",
                      "To", "RATLAM JN (-)", "Arrival* 02-01-2024 06:35:00">>,
      <<"Train No./Name", "12955 - MMCT JP SF EXP", "Class", "AC 3 TIER (3A)",
        "Booked From", "RATLAM JN (RTM)", "Departure* 05-01-2024 23:40:00",
        "To", "NEW DELHI (NDLS)", "Arrival* 06-01-2024 08:05:00">>,
      StationLines,
      <<"Terms and conditions">> }

\* the line sequences handed to extract_all_journeys: a page without marker, and
\* sequences of marked pages, with or without lines before the first marker
JourneyLineSequences ==
    JourneyPages
    \cup { <<"--- PAGE 1 ---">> \o p1 : p1 \in JourneyPages }
    \cup { <<"--- PAGE 1 ---">> \o p1 \o <<"--- PAGE 2 ---">> \o p2 :
               p1 \in JourneyPages, p2 \in JourneyPages }
    \cup { <<"--- PAGE 1 ---">> \o p1 \o <<"--- PAGE 2 ---">> \o p2 \o <<"--- PAGE 3 ---">> \o p3 :
               p1 \in JourneyPages, p2 \in JourneyPages,
               p3 \in IF MaxJourneyPages >= 3 THEN JourneyPages ELSE {} }
    \cup { p0 \o <<"--- PAGE 1 ---">> \o p1 : p0 \in JourneyPages, p1 \in JourneyPages }

\* the caller hands a line sequence to extract_all_journeys; page_records keeps the
\* candidate of each page that had one, calls the keys added to seen_journeys
ExtractAllJourneysCall ==
    /\ pc = "idle"
    /\ \E lines \in JourneyLineSequences :
           \E a \in {ExtractAllJourneys(lines)} :
               /\ entry' = "extract_all_journeys"
               /\ given' = lines
               /\ result' = a.journeys
               /\ page_records' = a.candidates
               /\ pc' = "done"
               /\ calls' = [i \in 1..Cardinality(a.seen_journeys) |-> CreateJourneyKey(a.journeys[i])]
    /\ UNCHANGED <<scan, earlier, validate, extraction_stats, doc, doc_open, page_num, all_tickets, ticket_data,
                   exc, clock>>

\* the most detail records and the most names of a page whose details loop is followed
MaxScanRecords == 7

\* k numbered name lines
NumberedNames(k) == [i \in 1..k |-> Cyclic(NameLines, i)]

\* the pages whose details loop is followed step by step: a details section of up to
\* MaxScanRecords records with no, two or MaxScanRecords names, and sections with
\* ages that follow each other, ages out of range, a closing keyword, no anchor
ScanLines ==
    { <<"Passenger Details:">> \o DetailBlock(k) \o NumberedNames(n) :
        k \in 0..MaxScanRecords, n \in {0, 2, MaxScanRecords} }
    \cup { NumberedNames(MaxScanRecords),
           <<"Passenger Details:", "34", "45", "Male", "Veg", "61", "7", "1. SUKH">>,
           <<"Passenger Details:", "0", "130", "1234", "34", "Male">>,
           <<"Passenger Details:", "34", "Male", "Veg", "CNF/S1/12", "PG Charges", "45", "Male">>,
           <<"Passenger Details:", "Name", "34", "Male", "Veg", "CNF/S1/12", "", "45">> }

\* lines 994-996: the line is a token of 1 to 3 digits with a value in 1..120
IsAcceptedAge(line) == IsAgeToken(line) /\ ToInt(line) >= 1 /\ ToInt(line) <= 120

\* line 1034: the line closes the details section
ClosesDetails(line) ==
    \E kw \in {"PG Charges", "IRCTC Convenience Fee", "In case of cancellation"} :
        Contains(line, kw)

\* a while loop that stops at the end of the lines only
ScanGoesOnUncapped == scan.i <= Len(given)

\* line 990: the condition of the while loop
ScanGoesOn == scan.i <= Len(given) /\ scan.passenger_count < MaxDetailRecords

\* extract_passengers is called and reaches its details loop; without the anchor it
\* returns the names alone
ExtractPassengersStart ==
    /\ pc = "idle"
    /\ \E lines \in ScanLines :
           /\ entry' = "extract_passengers"
           /\ given' = lines
           /\ IF PassengerStartIdx(lines) = 0
              THEN /\ result' = MergeRoster(PassengerNames(lines), <<>>)
                   /\ pc' = "done"
                   /\ scan' = scan
              ELSE /\ scan' = [i |-> PassengerStartIdx(lines) + 1, passenger_count |-> 0,
                               passenger_details |-> <<>>]
                   /\ pc' = "scan"
                   /\ result' = result
    /\ UNCHANGED <<earlier, validate, extraction_stats, doc, doc_open, page_num, all_tickets,
                   ticket_data, exc, clock, calls, page_records>>

\* one iteration of the details loop; calls keeps the indices of the accepted ages
ScanStep ==
    /\ pc = "scan"
    /\ ScanGoesOn
    /\ IF IsAcceptedAge(Strip(given[scan.i]))
       THEN /\ scan' = [i |-> scan.i + 4, passenger_count |-> scan.passenger_count + 1,
                        passenger_details |->
                            Append(scan.passenger_details, DetailAt(given, scan.i))]
            /\ calls' = Append(calls, scan.i)
            /\ pc' = pc
       ELSE IF ClosesDetails(Strip(given[scan.i]))
       THEN /\ pc' = "merge"
            /\ UNCHANGED <<scan, calls>>
       ELSE /\ scan' = [scan EXCEPT !.i = scan.i + 1]
            /\ UNCHANGED <<pc, calls>>
    /\ UNCHANGED <<earlier, validate, extraction_stats, entry, doc, doc_open, page_num,
                   all_tickets, ticket_data, result, exc, clock, page_records, given>>

\* after the loop: the merge of names and details, the statistics, the return
MergeStep ==
    /\ pc = "merge" \/ (pc = "scan" /\ ~ScanGoesOn)
    /\ result' = MergeRoster(PassengerNames(given), scan.passenger_details)
    /\ extraction_stats' = [extraction_stats EXCEPT !.passengers_extracted = Len(result')]
    /\ pc' = "done"
    /\ UNCHANGED <<scan, earlier, validate, entry, doc, doc_open, page_num, all_tickets,
                   ticket_data, exc, clock, calls, page_records, given>>

\* the strings handed to validate_train_number
TrainArguments ==
    {"", "1234", "12956", "20958", "99999", "10000", "00123", "1295A", "123456", "ABCDE"}

\* the caller hands a string to validate_train_number
ValidateTrainNumberCall ==
    /\ pc = "idle"
    /\ \E train_number \in TrainArguments :
           \E r \in {ValidateTrainNumber(train_number)} :
               /\ entry' = "validate_train_number"
               /\ given' = train_number
               /\ IF r.raised
                  THEN /\ exc' = r.error
                       /\ pc' = "raised"
                       /\ result' = result
                  ELSE /\ exc' = exc
                       /\ pc' = "done"
                       /\ result' = <<r.valid, r.score>>
    /\ UNCHANGED <<scan, earlier, validate, extraction_stats, doc, doc_open, page_num, all_tickets,
                   ticket_data, clock, calls, page_records>>

\* the strings handed to validate_station_code
StationArguments ==
    {"NDLS", "JP", "HWH", "ADI", "XYZ", "ndls", "Ndls", "N", "ABCDEF", "ND1S", "BOGUS1",
     "N0LS", "ND15", "8CT", "AD1"}

\* the caller hands a string to validate_station_code
ValidateStationCodeCall ==
    /\ pc = "idle"
    /\ \E station_code \in StationArguments :
           Returns("validate_station_code", station_code, ValidateStationCode(station_code))
    /\ UNCHANGED extraction_stats

\* the station codes of the records handed to validate_extracted_data
StationCodesGiven == {"NDLS", "HWH", "XYZ", "ndls", "ND1S", "BOGUS1"}

\* records with a boarding and a destination station
StationRecords ==
    { [pnr |-> "1234567894", passengers |-> <<>>,
       from_station |-> [station |-> a, datetime |-> "01-01-2024 22:10:00"],
       to_station |-> [station |-> b]] : a, b \in StationCodesGiven }

\* the caller hands a record with stations to validate_extracted_data
ValidateStationsCall == pc = "idle" /\ \E record \in StationRecords : CallValidate(record)

\* a journey as extract_journey_info builds it (lines 683-691)
Journey(train, distance, boarding, destination) ==
    [train_number |-> train, train_name |-> "EXP", class |-> "SLEEPER CLASS (SL)",
     quota |-> "GENERAL (GN)", distance_km |-> distance,
     boarding |-> boarding, destination |-> destination]

\* the journeys handed to analyze_journey_patterns: a late-evening boarding, a daytime
\* segment with 22 in the minutes, a segment without stations and times, an arrival
\* after midnight, a daytime segment with 23 in the seconds, a segment whose station
\* events have a time but no station code, with 00 in the arrival minutes, and a
\* late-evening boarding whose arrival time was not extracted
JourneyPool ==
    { Journey("12956", 700, [station |-> "NDLS", datetime |-> "16-09-2025 22:10:00"],
                            [station |-> "BCT", datetime |-> "17-09-2025 06:30:00"]),
      Journey("20958", 300, [station |-> "BCT", datetime |-> "17-09-2025 10:22:05"],
                            [station |-> "RTM", datetime |-> "17-09-2025 15:45:00"]),
      Journey("20946", NoneNum, EmptyDict, EmptyDict),
      Journey("12955", 150, [station |-> "RTM", datetime |-> "17-09-2025 19:05:00"],
                            [station |-> "NDLS", datetime |-> "18-09-2025 00:40:00"]),
      Journey("19019", 0, [station |-> "RTM", datetime |-> "18-09-2025 08:05:10"],
                          [station |-> "ADI", datetime |-> "18-09-2025 12:10:23"]),
      Journey(None, NoneNum, [station_name |-> "INDORE", datetime |-> "19-09-2025 09:15:00"],
                             [datetime |-> "19-09-2025 12:00:30"]),
      Journey("12916", 900, [station |-> "ADI", datetime |-> "19-09-2025 23:30:00"],
                            [station |-> "JP"]) }

MaxSegments == 3

\* the ordered journey lists of up to MaxSegments segments
JourneyLists == UNION { [1..n -> JourneyPool] : n \in 0..MaxSegments }

\* the caller hands a journey list to analyze_journey_patterns
AnalyzeJourneyPatternsCall ==
    /\ pc = "idle"
    /\ \E journeys \in JourneyLists :
           Returns("analyze_journey_patterns", journeys, AnalyzeJourneyPatterns(journeys))
    /\ UNCHANGED extraction_stats

\* fee-line anchors, with and without an amount on the line
FeeAnchorLines ==
    {"Ticket Fare", "Ticket Fare 1,480.00", "Total Fare (all inclusive)",
     "Pg Charges as applicable", "Travel Agent Service Charge ,"}

\* the lines that follow an anchor: amounts, text, a lone separator
FollowingLines == {"480.00", "1,234.50", "N/A", ","}

\* the pages handed to extract_payment_details: one anchor and three lines after it,
\* with or without the section heading, and pages with several anchors, an anchor
\* before the section, a repeated anchor, no payment section
PaymentLines ==
    { h \o <<a, x, y, z>> :
        h \in {<<>>, <<"Payment Details">>}, a \in FeeAnchorLines,
        x \in FollowingLines, y \in FollowingLines, z \in FollowingLines }
    \cup { <<"Payment Details", "Ticket Fare", "IRCTC Convenience Fee (Incl. of GST)",
             "480.00", "17.70", "Total Fare (all inclusive)", "497.70">>,
           <<"Total Fare (all inclusive)", "99.00", "Payment Details", "Ticket Fare", "480.00">>,
           <<"Payment Details", "Ticket Fare", "480.00", "Ticket Fare", "", "500">>,
           <<"Payment Details", "Travel Insurance Premium (Incl. of GST)", "0.45", "Total Fare">>,
           <<"PNR: 1234567894", "Train No./Name">>,
           <<>> }

\* the caller hands the lines of a page to extract_payment_details
ExtractPaymentDetailsCall ==
    /\ pc = "idle"
    /\ \E lines \in PaymentLines :
           Returns("extract_payment_details", lines, ExtractPaymentDetails(lines))
    /\ UNCHANGED extraction_stats

MethodNext ==
    \/ ExtractPaymentDetailsCall
    \/ AnalyzeJourneyPatternsCall
    \/ ValidatePnrChecksumCall
    \/ ExtractPnrCall
    \/ ExtractPassengersCall
    \/ ExtractAllJourneysCall
    \/ ValidateTrainNumberCall
    \/ ValidateStationCodeCall
    \/ ValidateStationsCall
    \/ ExtractPassengersStart
    \/ ScanStep
    \/ MergeStep

MethodSpec == Init /\ [][MethodNext]_vars

\* ------------------------------------------------------------------------
\* One instance, many documents: the caller keeps the record of a call and
\* hands the next document to the same extractor
\* ------------------------------------------------------------------------

\* calls of extract_from_pdf on one instance
MaxCalls == 3

\* a ticket page without a passenger-details section
NoRoster == <<"PNR: 1234567894">> \o TrainLines \o StationLines

\* the documents handed to a reused extractor
ReuseDocuments ==
    { [openable |-> TRUE, pages |-> ps] :
        ps \in { <<TicketA>>, <<NoRoster>>, <<Unreadable>>,
                 <<TicketA, TicketA>>, <<NoRoster, <<>>, TicketA>>, <<NoRoster, <<>>>> } }

\* the caller keeps what extract_from_pdf returned; the locals of the call are gone,
\* the instance and its extraction_stats stay as the call left them
KeepRecord ==
    /\ pc = "returned"
    /\ entry = "extract_from_pdf"
    /\ Len(earlier) < MaxCalls - 1
    /\ earlier' = Append(earlier, [pages |-> doc, record |-> result, parsed |-> page_records,
                                   stats |-> extraction_stats])
    /\ pc' = "idle"
    /\ entry' = "none"
    /\ doc' = <<>>
    /\ doc_open' = FALSE
    /\ page_num' = 0
    /\ all_tickets' = <<>>
    /\ ticket_data' = EmptyDict
    /\ result' = EmptyDict
    /\ exc' = None
    /\ calls' = <<>>
    /\ page_records' = <<>>
    /\ given' = EmptyDict
    /\ UNCHANGED <<scan, validate, extraction_stats, clock>>

\* the caller hands a document to extract_from_pdf of the instance
ExtractFromNextPdf == pc = "idle" /\ \E d \in ReuseDocuments : FitzOpen(d)

\* the record carries the 'stats' and 'extraction_stats' entries of the single-page
\* branch: both are the object self.extraction_stats, not a copy of it
HoldsAccumulator(record) ==
    /\ "extraction_metadata" \in DOMAIN record
    /\ record.extraction_metadata.extraction_method = "enhanced_pdf_direct"

\* a record returned by an earlier call as the caller reads it now, with the
\* accumulator's statistics of stats
ReadThrough(record, stats) ==
    IF HoldsAccumulator(record)
    THEN [record EXCEPT !.extraction_metadata.stats = stats,
                        !.extraction_metadata.audit_trail.extraction_stats = stats]
    ELSE record

\* the record of the earlier call i as the caller reads it now
RecordNow(i) == ReadThrough(earlier[i].record, extraction_stats)

ReuseNext ==
    \/ ExtractFromNextPdf
    \/ ParsePage(FALSE)
    \/ ReturnBookings
    \/ ParseSinglePage(FALSE)
    \/ Validate(FALSE)
    \/ AddMetadata(FALSE)
    \/ HandleException
    \/ KeepRecord

ReuseSpec == Init /\ [][ReuseNext]_vars

\* ------------------------------------------------------------------------
\* Properties
\* ------------------------------------------------------------------------

\* the elements of a list
Range(q) == {q[i] : i \in 1..Len(q)}

\* a is a prefix of b
IsPrefix(a, b) == Len(a) <= Len(b) /\ SubSeq(b, 1, Len(a)) = a

\* a 10-digit value
IsTenDigits(s) == Len(s) = 10 /\ AllDigits(s, 1, 10)

\* extract_from_pdf returned without having raised inside
ReturnedClean == entry = "extract_from_pdf" /\ pc = "returned" /\ exc = None

\* the ticket records extract_from_pdf returned: the record itself, or the bookings of a wrapper
ReturnedRecords ==
    IF ~ReturnedClean THEN {}
    ELSE IF "bookings" \in DOMAIN result THEN Range(result.bookings)
    ELSE IF "pnr" \in DOMAIN result THEN {result}
    ELSE {}

\* every passenger of the record (if any) has a placeholder name
OnlyPlaceholderNames(r) ==
    \A i \in 1..Len(r.passengers) : StartsWith(r.passengers[i].name, "PASSENGER_")

\* C1: every record built by parse_ticket_text_single_page, and so every ticket record
\* or wrapped booking extract_from_pdf returns, has success = true only if its
\* identifier is a 10-digit value, some passenger has a name that is no PASSENGER_<n>
\* placeholder and the journey list is non-empty; a record with a 10-digit identifier
\* and a journey but only placeholder names (or no passengers) has success = false.
C1_SuccessGate ==
    \A r \in Range(page_records) \cup ReturnedRecords :
        /\ r.success => IsTenDigits(r.pnr) /\ ~OnlyPlaceholderNames(r) /\ Len(r.journeys) > 0
        /\ IsTenDigits(r.pnr) /\ Len(r.journeys) > 0 /\ OnlyPlaceholderNames(r) => ~r.success

\* a returned record with a 10-digit identifier, a journey and only a placeholder passenger
C1_Witness ==
    /\ ReturnedClean /\ "pnr" \in DOMAIN result
    /\ IsTenDigits(result.pnr) /\ Len(result.journeys) > 0
    /\ Len(result.passengers) > 0 /\ OnlyPlaceholderNames(result)
    /\ ~result.success

\* C2: extract_from_pdf never raises: whatever the document (unopenable, no page, one
\* page, many pages) and whatever fails inside parsing, validation or metadata
\* generation, the exception goes to the outer handler and the call returns a record;
\* when a stage failed that record has success = false and carries the error message.
C2_NeverRaises ==
    entry = "extract_from_pdf" =>
        /\ pc # "raised"
        /\ exc # None => pc \in {"except", "returned"}
        /\ pc = "returned" => "success" \in DOMAIN result
        /\ pc = "returned" /\ exc # None => ~result.success /\ result.error = exc

\* a call that returned the failure of the validation stage
C2_Witness ==
    /\ entry = "extract_from_pdf" /\ pc = "returned"
    /\ calls = <<"parse", "validate">> /\ exc = StageFault
    /\ result = FailureResult(StageFault)

\* the records of the pages that qualify, in page order
Qualifying == SelectSeq(page_records, LAMBDA r : r.success)

\* C3: for a document of more than one page processed without exception: one
\* qualifying page => that page's record is returned; two or more => a multi-booking
\* wrapper whose bookings are exactly the qualifying pages' records; none => a record
\* with success = false whose error message contains the page count.
C3_PageSelection ==
    ReturnedClean /\ Len(doc) > 1 =>
        /\ Len(page_records) = Len(doc)
        /\ Len(Qualifying) = 1 => result = Qualifying[1]
        /\ Len(Qualifying) >= 2 =>
               /\ "multi_booking" \in DOMAIN result /\ result.multi_booking
               /\ result.bookings = Qualifying
               /\ result.booking_count = Len(Qualifying)
        /\ Len(Qualifying) = 0 =>
               /\ ~result.success
               /\ Contains(result.error, ToStr(Len(doc)))

\* a wrapper of two bookings returned for a document with a page that did not qualify
C3_Witness ==
    /\ ReturnedClean /\ Len(doc) > 2
    /\ Len(Qualifying) = 2 /\ Len(page_records) > 2
    /\ "bookings" \in DOMAIN result /\ Len(result.bookings) = 2

\* C4: for a document of more than one page validate_extracted_data is never invoked
\* during extract_from_pdf, and neither the returned record nor a booking of a
\* returned wrapper carries a validation result, whatever the validate flag.
C4_NoValidationOnManyPages ==
    entry = "extract_from_pdf" /\ Len(doc) > 1 =>
        /\ "validate" \notin Range(calls)
        /\ pc = "returned" =>
               /\ "validation" \notin DOMAIN result
               /\ \A r \in ReturnedRecords : "validation" \notin DOMAIN r

\* an instance with validate = true that returned a ticket from a document of many pages
C4_Witness ==
    /\ validate /\ ReturnedClean /\ Len(doc) > 1
    /\ result.success /\ ReturnedRecords # {}

\* the steps of the single-page branch, in order
SinglePageSteps ==
    IF validate THEN <<"parse", "validate", "quality", "audit">>
    ELSE <<"parse", "quality", "audit">>

\* C5: on a single-page document extract_from_pdf performs parse, then validation
\* (iff validate is true), then quality score and audit trail, in this order; when
\* no exception was raised the returned record has a validation result exactly when
\* validate is true and its extraction metadata hold the quality score and audit trail.
C5_SinglePageOrder ==
    entry = "extract_from_pdf" /\ Len(doc) = 1 =>
        /\ exc = None => IsPrefix(calls, SinglePageSteps)
        /\ ReturnedClean =>
               /\ calls = SinglePageSteps
               /\ "validation" \in DOMAIN result <=> validate
               /\ {"quality_score", "audit_trail"} \subseteq DOMAIN result.extraction_metadata
               /\ result.extraction_metadata.audit_trail.validation_enabled = validate

\* a validated single-page record returned with its metadata
C5_Witness ==
    /\ ReturnedClean /\ Len(doc) = 1 /\ validate
    /\ "validation" \in DOMAIN result
    /\ result.extraction_metadata.quality_score = 100

\* C6: every record extract_from_pdf returns with success = false carries an error
\* string, on the single-page and on the multi-page path, a single-page record that
\* misses identifier, journey or real passenger name included.
C6_FailureCarriesError ==
    entry = "extract_from_pdf" /\ pc = "returned" /\ ~result.success =>
        "error" \in DOMAIN result /\ Truthy(result.error)

\* validation of the parsed single-page record has completed inside extract_from_pdf
ValidatedInPipeline ==
    /\ entry = "extract_from_pdf" /\ "validation" \in DOMAIN ticket_data
    /\ pc \in {"metadata", "returned", "except"}

\* the field checks of a validation result that failed
FailedChecks(v) == {k \in DOMAIN v.field_validations : ~v.field_validations[k].valid}

\* C7: validation never changes the success flag of a parsed single-page record, and
\* every failed field check adds an entry to the anomaly list.
C7_ValidationKeepsSuccess ==
    ValidatedInPipeline =>
        /\ ticket_data.success = given.success
        /\ Len(ticket_data.validation.anomalies) >= Cardinality(FailedChecks(ticket_data.validation))

\* validate_extracted_data was invoked
ValidationRan == "validate" \in Range(calls)

\* d.get(k), None when the key is missing
Get(d, k) == IF k \in DOMAIN d THEN d[k] ELSE None

\* the names of the passengers of a record, in order
Names(td) == [i \in 1..Len(td.passengers) |-> td.passengers[i].name]

\* C8: validate_extracted_data leaves the identifier, the transaction id, every
\* passenger's name and the number and order of passengers and journeys unchanged,
\* for every input record (whether it returns or raises).
C8_IdentityUnchanged ==
    ValidationRan =>
        /\ ticket_data.pnr = given.pnr
        /\ ticket_data.transaction_id = given.transaction_id
        /\ Len(ticket_data.passengers) = Len(given.passengers)
        /\ Names(ticket_data) = Names(given)
        /\ ticket_data.journeys = given.journeys

\* a direct call on a record of two passengers that returned with anomalies
C8_Witness ==
    /\ pc = "validated" /\ Len(given.passengers) = 2
    /\ given.pnr = "6234567891" /\ result.anomalies # <<>>

\* the record just after validate_extracted_data ran on it
JustValidated ==
    /\ ValidationRan
    /\ pc \in {"validated", "raised"} \/ (pc \in {"metadata", "except"} /\ calls = <<"parse", "validate">>)

\* the station dict with its code masked
MaskStation(st) == IF "station" \in DOMAIN st THEN [st EXCEPT !.station = "*"] ELSE st

\* a == b but for the codes of the station fields
SameButStationCodes(a, b, k) ==
    IF k \in {"from_station", "to_station"} THEN MaskStation(a[k]) = MaskStation(b[k])
    ELSE a[k] = b[k]

\* the passenger after is the passenger before, or the passenger before with an
\* absent gender filled in from the name
SameOrGenderInferred(before, after) ==
    \/ after = before
    \/ /\ ~Truthy(before.gender)
       /\ Truthy(before.name) /\ InferGenderFromName(before.name) # None
       /\ after = [before EXCEPT !.gender = InferGenderFromName(before.name)]

\* C9 as stated: the only fields validate_extracted_data changes in place are station
\* codes; every other field, each passenger's gender included, is the same after as before.
C9_OnlyStationCodesChange ==
    JustValidated =>
        \A k \in DOMAIN given : SameButStationCodes(ticket_data, given, k)

\* C9 amended: the only fields validate_extracted_data changes in place are station
\* codes and the gender of a passenger whose gender was absent, which is set to the
\* one inferred from the name; every other field is the same after as before.
C9_OnlyStationsAndAbsentGender ==
    JustValidated =>
        /\ DOMAIN given \subseteq DOMAIN ticket_data
        /\ DOMAIN ticket_data \ DOMAIN given \subseteq {"validation"}
        /\ \A k \in DOMAIN given \ {"passengers"} : SameButStationCodes(ticket_data, given, k)
        /\ Len(ticket_data.passengers) = Len(given.passengers)
        /\ \A i \in 1..Len(given.passengers) :
               SameOrGenderInferred(given.passengers[i], ticket_data.passengers[i])

\* a direct call that returned after inferring a gender
C9_Witness ==
    /\ pc = "validated"
    /\ \E i \in 1..Len(given.passengers) :
           /\ given.passengers[i].gender = None
           /\ ticket_data.passengers[i].gender = "Male"

\* the validation results the call produced
ValidationResults ==
    (IF pc = "validated" THEN {result} ELSE {})
    \cup (IF ValidatedInPipeline THEN {ticket_data.validation} ELSE {})

RECURSIVE SumScores(_, _)
\* the sum of the scores of the field checks named in keys
SumScores(fv, keys) ==
    IF keys = {} THEN 0
    ELSE LET k == CHOOSE x \in keys : TRUE IN fv[k].score + SumScores(fv, keys \ {k})

\* C10: the overall validation score is the arithmetic mean of the field scores in
\* field_validations (each in 0..100), so it lies in 0..100; it is 0 when no field
\* was validated.
C10_OverallScoreIsMean ==
    \A v \in ValidationResults :
        LET fv == v.field_validations
            n == Cardinality(DOMAIN fv)
            score == v.overall_score
        IN  /\ \A k \in DOMAIN fv : fv[k].score \in 0..100
            /\ n = 0 => score.num = 0
            /\ n > 0 => score.num * n = SumScores(fv, DOMAIN fv) * score.den
            /\ 0 <= score.num /\ score.num <= 100 * score.den

\* the digit of a one-character string
DigitOf(c) == CHOOSE d \in 0..9 : ToStr(d) = c

\* the check digit of the first nine digits of s under the weights 2,3,4,5,6,7,2,3,4
CheckDigit(s) ==
    LET sum == 2 * DigitOf(Ch(s, 1)) + 3 * DigitOf(Ch(s, 2)) + 4 * DigitOf(Ch(s, 3))
             + 5 * DigitOf(Ch(s, 4)) + 6 * DigitOf(Ch(s, 5)) + 7 * DigitOf(Ch(s, 6))
             + 2 * DigitOf(Ch(s, 7)) + 3 * DigitOf(Ch(s, 8)) + 4 * DigitOf(Ch(s, 9))
    IN  (10 - (sum % 10)) % 10

\* a string of exactly ten digits
TenDigitString(s) == s # None /\ Len(s) = 10 /\ \A i \in 1..10 : Ch(s, i) \in Digits

\* validate_pnr_checksum returned
ChecksumReturned == entry = "validate_pnr_checksum" /\ pc = "done"

\* C11: for every 10-digit string validate_pnr_checksum returns (true, 100) iff the
\* tenth digit is the check digit (10 - (weighted sum of the first nine) mod 10) mod 10
\* under the weights 2,3,4,5,6,7,2,3,4; otherwise (false, 85) when the first digit is
\* one of the common prefixes and (false, 70) when it is not; an input that is not
\* exactly 10 digits gives (false, 0); the check digit of 123456789 is 4.
C11_PnrChecksum ==
    ChecksumReturned =>
        /\ ~TenDigitString(given) => result = <<FALSE, 0>>
        /\ TenDigitString(given) =>
               /\ result = <<TRUE, 100>> <=> DigitOf(Ch(given, 10)) = CheckDigit(given)
               /\ result \in {<<TRUE, 100>>, <<FALSE, 85>>, <<FALSE, 70>>}
               /\ result = <<FALSE, 85>> => Ch(given, 1) \in {"1", "2", "3", "4", "8", "9"}
               /\ result = <<FALSE, 70>> => Ch(given, 1) \notin {"1", "2", "3", "4", "8", "9"}
        /\ given = "1234567894" => result = <<TRUE, 100>>
        /\ TenDigitString(given) /\ SubSeq(given, 1, 9) = "123456789" /\ given # "1234567894"
               => result = <<FALSE, 85>>

\* the identifier 1234567894 passed its checksum
C11_Witness == ChecksumReturned /\ given = "1234567894" /\ result = <<TRUE, 100>>

\* extract_pnr returned
PnrReturned == entry = "extract_pnr" /\ pc = "done"

\* the line carries the identifier label
Labelled(line) == Contains(line, "PNR:") \/ Contains(line, "PNR ")

\* the line mentions contact or phone context
MentionsContact(line) ==
    \E w \in {"mobile", "phone", "contact", "sms", "call"} : Contains(StrLower(line), w)

\* ten digits start at index k of the line
TenDigitsAt(line, k) == k >= 1 /\ k + 9 <= Len(line) /\ \A j \in k..(k + 9) : Ch(line, j) \in Digits

\* a standalone 10-digit token starts at index k of the line
StandaloneAt(line, k) ==
    /\ TenDigitsAt(line, k)
    /\ k = 1 \/ ~IsWord(Ch(line, k - 1))
    /\ k + 9 = Len(line) \/ ~IsWord(Ch(line, k + 10))

\* the 10-digit values that follow the label in the line, blanks between allowed
AfterLabel(line) ==
    {SubSeq(line, k, k + 9) : k \in {j \in 1..Len(line) : TenDigitsAt(line, j) /\
        \E b \in 1..(j - 1) : /\ \A x \in b..(j - 1) : Ch(line, x) = " "
                              /\ \/ b >= 4 /\ SubSeq(line, b - 3, b - 1) = "PNR"
                                 \/ b >= 5 /\ SubSeq(line, b - 4, b - 1) = "PNR:"}}
    \cup {SubSeq(line, k, k + 9) : k \in {j \in 1..Len(line) : TenDigitsAt(line, j) /\
        \/ j >= 4 /\ SubSeq(line, j - 3, j - 1) = "PNR"
        \/ j >= 5 /\ SubSeq(line, j - 4, j - 1) = "PNR:"}}

\* the leftmost ten digits of the line, or None
LeftmostTenDigits(line) ==
    LET K == {k \in 1..Len(line) : TenDigitsAt(line, k)}
    IN  IF K = {} THEN None ELSE SubSeq(line, SetMin(K), SetMin(K) + 9)

\* the leftmost standalone 10-digit token of the line, or None
LeftmostStandalone(line) ==
    LET K == {k \in 1..Len(line) : StandaloneAt(line, k)}
    IN  IF K = {} THEN None ELSE SubSeq(line, SetMin(K), SetMin(K) + 9)

\* the value available at the labelled line i: on the line itself, else on the next line
ValueAtLabel(lines, i) ==
    IF LeftmostTenDigits(lines[i]) # None THEN LeftmostTenDigits(lines[i])
    ELSE IF i < Len(lines) THEN LeftmostStandalone(Strip(lines[i + 1]))
    ELSE None

\* C12: when some line carries the identifier label, extract_pnr returns the first
\* 10-digit value found at the first labelled line, on that line (the value at the
\* label when there is one) or else on the next line; the line "PNR: 1234567890" yields
\* "1234567890"; a value at a later labelled line is never preferred to one available
\* at the first; extract_pnr returns none or a string of exactly 10 digits.
C12_LabelledPnr ==
    PnrReturned =>
        /\ result = None \/ TenDigitString(result)
        /\ given = <<"PNR: 1234567890">> => result = "1234567890"
        /\ \A i \in 1..Len(given) :
               /\ Labelled(given[i])
               /\ \A j \in 1..(i - 1) : ~Labelled(given[j])
               /\ ValueAtLabel(given, i) # None
               => IF AfterLabel(given[i]) # {} THEN result \in AfterLabel(given[i])
                  ELSE result = ValueAtLabel(given, i)

\* two labelled lines with different values: the value of the first was returned
C12_Witness ==
    /\ PnrReturned
    /\ given = <<"PNR: 1234567890", "PNR: 2345678901">>
    /\ result = "1234567890"

\* no line of the sequence carries the identifier label
NoLabel(lines) == \A i \in 1..Len(lines) : ~Labelled(lines[i])

\* line i lies in the first half of the line sequence
InFirstHalf(lines, i) == 2 * (i - 1) < Len(lines)

\* the token is acceptable to the fallback at line i: no contact context on the line,
\* no leading 0, 8 or 9, the line in the first half
Acceptable(lines, i, token) ==
    /\ ~MentionsContact(lines[i])
    /\ Ch(token, 1) \notin {"0", "8", "9"}
    /\ InFirstHalf(lines, i)

\* the acceptable standalone tokens of the sequence, as <<line, index>> places
AcceptablePlaces(lines) ==
    {pl \in (1..Len(lines)) \X (1..12) :
        /\ StandaloneAt(lines[pl[1]], pl[2])
        /\ Acceptable(lines, pl[1], SubSeq(lines[pl[1]], pl[2], pl[2] + 9))}

\* the first place of a non-empty set of places, in line order
FirstPlace(P) ==
    CHOOSE pl \in P : \A q \in P : pl[1] < q[1] \/ (pl[1] = q[1] /\ pl[2] <= q[2])

\* the lines whose leftmost standalone token is acceptable
AcceptableLines(lines) ==
    {i \in 1..Len(lines) :
        /\ LeftmostStandalone(lines[i]) # None
        /\ Acceptable(lines, i, LeftmostStandalone(lines[i]))}

\* some line without contact context holds the value
FromContactFreeLine(lines, value) ==
    \E i \in 1..Len(lines) : Contains(lines[i], value) /\ ~MentionsContact(lines[i])

\* C13 as stated: with no label on any line extract_pnr returns the first standalone
\* 10-digit token whose line mentions no contact context and lies in the first half
\* and which does not begin with 0, 8 or 9, none when there is no such token; and no
\* identifier extract_pnr returns, by either route, comes from a line mentioning contact
\* context.
C13_FallbackPnr ==
    PnrReturned =>
        /\ NoLabel(given) =>
               LET P == AcceptablePlaces(given)
               IN  IF P = {} THEN result = None
                   ELSE result = SubSeq(given[FirstPlace(P)[1]], FirstPlace(P)[2], FirstPlace(P)[2] + 9)
        /\ result # None => FromContactFreeLine(given, result)

\* C13 amended: with no label on any line extract_pnr considers the leftmost standalone
\* 10-digit token of each line only, and returns that of the first line which mentions
\* no contact context, lies in the first half and whose leftmost token does not begin
\* with 0, 8 or 9, none when there is no such line; an identifier returned by this
\* fallback never comes from a line mentioning contact context (the labelled route
\* applies no such exclusion).
C13_FallbackLeftmostToken ==
    PnrReturned /\ NoLabel(given) =>
        LET L == AcceptableLines(given)
        IN  /\ L = {} => result = None
            /\ L # {} =>
                   /\ result = LeftmostStandalone(given[SetMin(L)])
                   /\ ~MentionsContact(given[SetMin(L)])
                   /\ FromContactFreeLine(given, result)

\* the fallback skipped a contact line and returned the token of the next line
C13_Witness ==
    /\ PnrReturned
    /\ given = <<"Mobile: 4567890123", "Booking 5678901234 ok", "Ticket">>
    /\ result = "5678901234"

\* extract_passengers returned
PassengersReturned == entry = "extract_passengers" /\ pc = "done"

\* the passenger-details anchor is on some line
HasAnchor(lines) == \E i \in 1..Len(lines) : Contains(lines[i], "Passenger Details")

\* the detail fields of a passenger
DetailsOf(p) ==
    [age |-> p.age, gender |-> p.gender, food_choice |-> p.food_choice,
     booking_status |-> p.booking_status, current_status |-> p.current_status]

\* details with every field none
AllNone ==
    [age |-> NoneNum, gender |-> None, food_choice |-> None,
     booking_status |-> None, current_status |-> None]

\* the greater of two numbers
Max(a, b) == IF a >= b THEN a ELSE b

\* the name is a PASSENGER_<n> placeholder
IsPlaceholder(name) == Len(name) > 10 /\ SubSeq(name, 1, 10) = "PASSENGER_"

\* C14: with the passenger-details anchor present extract_passengers returns a roster of
\* length max(accepted names, detail records); entry i has name i when it exists, else
\* the placeholder PASSENGER_<i>, and detail record i when it exists, else all-none
\* details; 3 records with 2 names give 3 passengers, the third named PASSENGER_3; a
\* placeholder name appears only beyond the last accepted name.
C14_RosterMerge ==
    PassengersReturned /\ HasAnchor(given) =>
        LET names == PassengerNames(given)
            details == PassengerDetails(given)
        IN  /\ Len(result) = Max(Len(names), Len(details))
            /\ \A i \in 1..Len(result) :
                   /\ i <= Len(names) => result[i].name = names[i][2] /\ ~IsPlaceholder(result[i].name)
                   /\ i > Len(names) => result[i].name = "PASSENGER_" \o ToStr(i)
                   /\ i <= Len(details) => DetailsOf(result[i]) = details[i]
                   /\ i > Len(details) => DetailsOf(result[i]) = AllNone
            /\ Len(names) = 2 /\ Len(details) = 3 =>
                   Len(result) = 3 /\ result[3].name = "PASSENGER_3"

\* three complete detail records with two names gave three passengers, the third a placeholder
C14_Witness ==
    /\ PassengersReturned /\ HasAnchor(given)
    /\ Len(PassengerNames(given)) = 2 /\ Len(PassengerDetails(given)) = 3
    /\ Len(result) = 3 /\ result[3].name = "PASSENGER_3" /\ result[3].age = 61

\* the names 1. SUKH and 2. BANSAL with a details block of one complete record
SukhBansalOneRecord ==
    /\ PassengersReturned
    /\ given \in { <<"1. SUKH", "2. BANSAL">> \o <<"Passenger Details:">> \o DetailBlock(1),
                   <<"Passenger Details:">> \o DetailBlock(1) \o <<"1. SUKH", "2. BANSAL">> }

\* the one detail record of the block
ScannedRecord ==
    [age |-> 34, gender |-> "Male", food_choice |-> "Veg",
     booking_status |-> "CNF/S1/12/LOWER", current_status |-> "CNF"]

\* C15 as stated: the names 1. SUKH and 2. BANSAL with a details block yielding one
\* complete record give exactly 2 passengers, neither with a placeholder name, and the
\* second passenger carries the scanned detail record.
C15_SecondCarriesRecord ==
    SukhBansalOneRecord =>
        /\ Len(result) = 2
        /\ result[1].name = "SUKH" /\ result[2].name = "BANSAL"
        /\ DetailsOf(result[2]) = ScannedRecord

\* C15 amended: the names 1. SUKH and 2. BANSAL with a details block yielding one complete
\* record give exactly 2 passengers, neither with a placeholder name; the first
\* passenger carries the scanned detail record and the second has all-none details.
C15_FirstCarriesRecord ==
    SukhBansalOneRecord =>
        /\ Len(result) = 2
        /\ result[1].name = "SUKH" /\ result[2].name = "BANSAL"
        /\ DetailsOf(result[1]) = ScannedRecord
        /\ DetailsOf(result[2]) = AllNone

\* the roster of SUKH and BANSAL was returned, the names listed after the details block
C15_Witness ==
    /\ SukhBansalOneRecord
    /\ given[1] = "Passenger Details:"
    /\ Len(result) = 2 /\ result[2].sno = 2 /\ result[1].age = 34

\* extract_all_journeys returned from a line sequence with page markers
JourneysReturned ==
    /\ entry = "extract_all_journeys" /\ pc = "done"
    /\ \E i \in 1..Len(given) : Contains(given[i], "--- PAGE")

\* the identity of a segment: train number, class, boarding and destination StationEvent
SegmentIdentity(j) == <<j.train_number, j.class, j.boarding, j.destination>>

\* the code and the time of a StationEvent
CodeAndTime(event) == <<Get(event, "station"), Get(event, "datetime")>>

\* the identity of a segment with the train name, and the StationEvents by code and time
KeyedIdentity(j) ==
    <<j.train_number, j.train_name, j.class, CodeAndTime(j.boarding), CodeAndTime(j.destination)>>

\* the keys of the assembled list are pairwise different and are the keys seen during the extraction
KeysDistinctAndStable ==
    /\ \A a, b \in 1..Len(result) :
           a # b => CreateJourneyKey(result[a]) # CreateJourneyKey(result[b])
    /\ page_records # <<>> => calls = [a \in 1..Len(result) |-> CreateJourneyKey(result[a])]

\* C16 as stated: page candidates with identical train number, class, boarding and
\* destination StationEvent collapse to a single entry of the assembled list, however
\* many pages produced them; the list never holds two segments with the same identity
\* key; the key of a segment is the same on every extraction.
C16_SegmentsCollapse ==
    JourneysReturned =>
        /\ \A a, b \in 1..Len(result) :
               a # b => SegmentIdentity(result[a]) # SegmentIdentity(result[b])
        /\ KeysDistinctAndStable

\* C16 amended: page candidates with identical train number, train name, class, and
\* code and time of the boarding and of the destination StationEvent collapse to a
\* single entry, the first of them in page order, however many pages produced them;
\* every candidate is represented in the list; the list never holds two segments with
\* the same identity key; the key of a segment is the same on every extraction.
C16_KeyedSegmentsCollapse ==
    JourneysReturned =>
        /\ \A a, b \in 1..Len(result) :
               a # b => KeyedIdentity(result[a]) # KeyedIdentity(result[b])
        /\ \A c \in 1..Len(page_records) :
               \E a \in 1..Len(result) :
                   /\ KeyedIdentity(result[a]) = KeyedIdentity(page_records[c])
                   /\ \E d \in 1..c : result[a] = page_records[d]
        /\ KeysDistinctAndStable

\* three pages that gave the same journey twice and another one: two entries
C16_Witness ==
    /\ JourneysReturned
    /\ Len(page_records) = 3 /\ Len(result) = 2
    /\ page_records[1] = page_records[3] /\ page_records[1] # page_records[2]

\* the payment breakdown of the parsed record holds a total and a ticket fare
PaymentKnown ==
    /\ "payment" \in DOMAIN ticket_data
    /\ TruthyNum(ticket_data.payment.total) /\ TruthyNum(ticket_data.payment.ticket_fare)

\* a component of the payment breakdown, an absent one counted as 0
ComponentOrZero(payment, k) ==
    IF k \in DOMAIN payment /\ payment[k] # NoneNum THEN payment[k] ELSE 0

\* ticket fare + service fee + insurance + agent fee + gateway charge, in paise
ComponentSum(payment) ==
    ComponentOrZero(payment, "ticket_fare") + ComponentOrZero(payment, "irctc_fee")
  + ComponentOrZero(payment, "insurance") + ComponentOrZero(payment, "agent_fee")
  + ComponentOrZero(payment, "pg_charges")

\* |total - component sum| < 1.0, in paise
WithinTolerance(payment) ==
    /\ payment.total - ComponentSum(payment) < 100
    /\ ComponentSum(payment) - payment.total < 100

\* C17: for a record produced by the parser whose payment total and ticket fare are
\* known, validation produces a payment-sum cross-check, valid iff the total differs
\* from the sum of the components (absent ones counted as 0) by less than 1.0.
C17_PaymentSumCrossCheck ==
    ValidatedInPipeline /\ PaymentKnown =>
        /\ "payment_calculation" \in DOMAIN ticket_data.validation.cross_validations
        /\ ticket_data.validation.cross_validations.payment_calculation.valid
               <=> WithinTolerance(ticket_data.payment)

\* a parsed record with total 497.70 and ticket fare 480.00 has been validated
C17_Witness ==
    /\ ValidatedInPipeline /\ PaymentKnown
    /\ ticket_data.payment.total = 49770 /\ ticket_data.payment.ticket_fare = 48000

\* validate_extracted_data called on a record that carries the parser's payment
\* breakdown under payment_details, with the components the page lacks held as None,
\* returns a validation result
C17_AbsentComponentsDoNotRaise ==
    /\ entry = "validate_extracted_data" /\ pc \in {"raised", "validated"}
    /\ "payment_details" \in DOMAIN given
    /\ \E k \in DOMAIN given.payment_details : given.payment_details[k] = NoneNum
    => pc = "validated"

\* the statistics of a new instance
StatsOfNewInstance ==
    [total_pages |-> 0, text_blocks_found |-> 0, passengers_extracted |-> 0,
     fields_extracted |-> 0, validation_score |-> [num |-> 0, den |-> 1],
     anomalies_detected |-> 0]

\* the calls of extract_from_pdf on the instance that have returned, in order
Runs ==
    IF entry = "extract_from_pdf" /\ pc = "returned"
    THEN Append(earlier, [pages |-> doc, record |-> result, parsed |-> page_records,
                          stats |-> extraction_stats])
    ELSE earlier

\* the statistics of the instance when run i was called
StartStats(i) == IF i = 1 THEN StatsOfNewInstance ELSE Runs[i - 1].stats

\* a record without its extraction timestamp
WithoutTimestamp(record) ==
    IF "extraction_metadata" \in DOMAIN record
    THEN [record EXCEPT !.extraction_metadata.extracted_at = 0]
    ELSE record

\* a record without its extraction timestamp and the statistics of the instance
WithoutStatistics(record) ==
    IF HoldsAccumulator(record)
    THEN ReadThrough(WithoutTimestamp(record), StatsOfNewInstance)
    ELSE WithoutTimestamp(record)

\* two calls of parse_ticket_text_single_page with the same lines and page number, in
\* two runs, give records equal in every field except extracted_at
ParsesAgree ==
    \A i, j \in 1..Len(Runs) :
        \A a \in 1..Len(Runs[i].parsed) :
            a <= Len(Runs[j].parsed) /\ Runs[i].pages[a] = Runs[j].pages[a] =>
                WithoutTimestamp(Runs[i].parsed[a]) = WithoutTimestamp(Runs[j].parsed[a])

\* runs i and j took the single-page path on the same lines
SameSinglePage(i, j) == Len(Runs[i].pages) = 1 /\ Runs[i].pages = Runs[j].pages

\* C18 as stated: two runs of parse_ticket_text_single_page on the same lines, and two
\* runs of the single-page path of extract_from_pdf on the same lines, return records
\* equal in every field except extracted_at, on one instance as on new ones.
C18_RerunsAgree ==
    /\ ParsesAgree
    /\ \A i, j \in 1..Len(Runs) :
           SameSinglePage(i, j) =>
               WithoutTimestamp(Runs[i].record) = WithoutTimestamp(Runs[j].record)

\* C18 amended: two runs of parse_ticket_text_single_page on the same lines return
\* records equal in every field except extracted_at; two runs of the single-page path
\* of extract_from_pdf on the same lines return records equal in every field except
\* extracted_at and the embedded statistics of the instance, and equal in the
\* statistics too when the accumulator held the same values at both calls, as it does
\* on two new instances.
C18_RerunsAgreeFromEqualStatistics ==
    /\ ParsesAgree
    /\ \A i, j \in 1..Len(Runs) :
           SameSinglePage(i, j) =>
               /\ WithoutStatistics(Runs[i].record) = WithoutStatistics(Runs[j].record)
               /\ StartStats(i) = StartStats(j) =>
                      WithoutTimestamp(Runs[i].record) = WithoutTimestamp(Runs[j].record)

\* the page without a roster was extracted, then a page with one, then the first again,
\* and the first and the third record differ in the statistics only
C18_Witness ==
    /\ Len(Runs) = 3
    /\ Runs[1].pages = <<NoRoster>> /\ Runs[2].pages = <<TicketA>> /\ Runs[3].pages = <<NoRoster>>
    /\ Runs[1].record.extraction_metadata.stats.passengers_extracted = 0
    /\ Runs[3].record.extraction_metadata.stats.passengers_extracted = 1
    /\ WithoutStatistics(Runs[1].record) = WithoutStatistics(Runs[3].record)

\* C19: a record returned by extract_from_pdf is immutable once returned: no later call
\* of extract_from_pdf on the instance changes any field of it, the statistics and the
\* audit trail of its extraction metadata included.
C19_ReturnedRecordImmutable ==
    \A i \in 1..Len(earlier) : RecordNow(i) = earlier[i].record

\* a later call has changed the statistics inside the record an earlier call returned
C19_LaterCallRewritesRecord ==
    \E i \in 1..Len(earlier) :
        /\ HoldsAccumulator(earlier[i].record)
        /\ RecordNow(i).extraction_metadata.stats # earlier[i].record.extraction_metadata.stats

\* the entries of the accumulator the running call of extract_from_pdf has written
WrittenByRun ==
    IF entry # "extract_from_pdf" THEN {}
    ELSE (IF exc # OpenError THEN {"total_pages"} ELSE {})
         \cup (IF \E a \in 1..Len(page_records) : PassengerStartIdx(SplitLines(doc[a])) # 0
               THEN {"passengers_extracted"} ELSE {})
         \cup (IF "validation" \in DOMAIN ticket_data
               THEN {"validation_score", "anomalies_detected"} ELSE {})

\* every entry the running call has not written holds the value the call before left
CarriedOver ==
    earlier # <<>> =>
        \A k \in DOMAIN extraction_stats \ WrittenByRun :
            extraction_stats[k] = earlier[Len(earlier)].stats[k]

\* the record returned carries every entry the call has not written with the value the
\* call before left
ReportsCarriedOver ==
    /\ "extraction_metadata" \in DOMAIN result
    /\ "stats" \in DOMAIN result.extraction_metadata
    /\ \A k \in DOMAIN extraction_stats \ WrittenByRun :
           /\ k \in DOMAIN result.extraction_metadata.stats
           /\ result.extraction_metadata.stats[k] = earlier[Len(earlier)].stats[k]

\* extract_from_pdf has returned a record for a document after an earlier one
ReturnedAfterEarlier ==
    entry = "extract_from_pdf" /\ pc = "returned" /\ exc = None /\ earlier # <<>>

\* C20 as stated: nothing resets the accumulator; when an instance processes document A
\* and then document B, every entry B's run does not write still holds A's value and is
\* reported in B's metadata, for a single-page B as for a multi-page B.
C20_CarriedOverAndReported ==
    /\ CarriedOver
    /\ ReturnedAfterEarlier => ReportsCarriedOver

\* C20 amended: nothing resets the accumulator; when an instance processes document A
\* and then document B, every entry B's run does not write still holds A's value, and
\* when B has a single page the value is reported in B's metadata; the record of a
\* multi-page B carries no statistics of the accumulator.
C20_CarriedOverReportedBySinglePage ==
    /\ CarriedOver
    /\ ReturnedAfterEarlier =>
           IF Len(doc) > 1 THEN ~HoldsAccumulator(result) ELSE ReportsCarriedOver

\* the page without a roster extracted after a page with one passenger reports one
\* passenger extracted, and its record differs from the one a new instance returned
C20_Witness ==
    /\ ReturnedAfterEarlier /\ Len(earlier) = 2
    /\ earlier[1].pages = <<NoRoster>> /\ earlier[2].pages = <<TicketA>> /\ doc = <<NoRoster>>
    /\ "passengers_extracted" \notin WrittenByRun
    /\ result.extraction_metadata.stats.passengers_extracted = 1
    /\ WithoutTimestamp(result) # WithoutTimestamp(earlier[1].record)

\* the string is made of exactly five digits
FiveDigits(value) == Len(value) = 5 /\ AllDigits(value, 1, 5)

\* what the train-number rule gives for a string
TrainNumberRule(value) ==
    IF ~FiveDigits(value) THEN <<FALSE, 30>>
    ELSE IF value \in train_database THEN <<TRUE, 100>>
    ELSE IF 10000 <= ToInt(value) /\ ToInt(value) <= 99999 THEN <<TRUE, 80>>
    ELSE <<FALSE, 50>>

\* C21: validate_train_number returns for every string, without raising: (false, 30)
\* when the value is not exactly 5 digits, (true, 100) for a 5-digit number of the train
\* directory, (true, 80) for any other 5-digit number in 10000..99999, and (false, 50)
\* for the remaining 5-digit strings.
C21_TrainNumberScores ==
    entry = "validate_train_number" /\ pc \in {"done", "raised"} =>
        pc = "done" /\ result = TrainNumberRule(given)

\* validate_train_number raised on a number of the train directory
C21_DirectoryNumberRaises ==
    entry = "validate_train_number" /\ pc = "raised" /\ given = "12956"

\* 2 to 5 uppercase letters
WellFormedCode(code) ==
    /\ Len(code) >= 2 /\ Len(code) <= 5
    /\ \A k \in 1..Len(code) : Ch(code, k) \in UpperSet

\* the outcome agrees with the station-code rule for the code
FollowsStationRule(code, valid, score) ==
    IF WellFormedCode(code)
    THEN <<valid, score>> = (IF code \in station_codes THEN <<TRUE, 100>> ELSE <<FALSE, 60>>)
    ELSE ~valid /\ score \in {20, 30}

RECURSIVE Substituted(_)
\* the code with the OCR-confusable characters substituted
Substituted(code) ==
    IF code = "" THEN ""
    ELSE (CASE Ch(code, 1) = "O" -> "0" [] Ch(code, 1) = "I" -> "1" [] Ch(code, 1) = "S" -> "5"
            [] Ch(code, 1) = "B" -> "8" [] OTHER -> Ch(code, 1)) \o Substituted(From(code, 2))

\* the station fields of the record given to validate_extracted_data
StationFields == {f \in {"from_station", "to_station"} : StationChecked(given, f)}

\* the validation entry, the anomaly and the correction of one station field
StationFieldSettled(f) ==
    LET code == given[f].station
        check == result.field_validations[f \o "_code"]
        hit == ~check.valid /\ Substituted(code) \in station_codes
    IN  /\ check.value = code
        /\ FollowsStationRule(code, check.valid, check.score)
        /\ IF hit
           THEN /\ ticket_data[f].station = Substituted(code)
                /\ \E n \in 1..Len(result.corrections_applied) :
                       Contains(result.corrections_applied[n], code)
           ELSE ticket_data[f].station = code

ScanAgreesWithExtractPassengers ==
    entry = "extract_passengers" /\ pc = "done" => result = ExtractPassengers(given)

\* extract_passengers has entered its details loop
InDetailsScan == entry = "extract_passengers" /\ scan # EmptyDict

\* the details loop so far: one record per accepted age token, at most 6 of them, the
\* index moved 4 lines past every accepted token
ScanSafe ==
    InDetailsScan =>
        /\ Len(scan.passenger_details) = scan.passenger_count
        /\ Len(calls) = scan.passenger_count
        /\ scan.passenger_count <= 6
        /\ \A k \in 1..Len(calls) :
               /\ IsAgeToken(Strip(given[calls[k]]))
               /\ ToInt(Strip(given[calls[k]])) \in 1..120
               /\ scan.passenger_details[k].age = ToInt(Strip(given[calls[k]]))
               /\ IF k < Len(calls) THEN calls[k + 1] >= calls[k] + 4 ELSE scan.i >= calls[k] + 4
        /\ scan.i <= Len(given) + 4

\* the passenger-count cross-check of a record with the roster returned
CountCheck == PerformCrossValidations([passengers |-> result]).validations.passenger_count

\* extract_passengers has returned a roster
RosterReturned == entry = "extract_passengers" /\ pc = "done"

\* the roster has at most 6 passengers and its count check is valid
RosterCapped == RosterReturned => Len(result) <= 6 /\ (Len(result) > 0 => CountCheck.valid)

\* the roster is as long as the longer of the accepted names and the detail records,
\* and its count check is valid iff it has at most 6 passengers
RosterAsLongAsNames ==
    RosterReturned =>
        /\ Len(result) = Max(Len(PassengerNames(given)), Len(PassengerDetails(given)))
        /\ scan # EmptyDict => scan.passenger_details = PassengerDetails(given)
        /\ Len(result) > 0 => (CountCheck.valid <=> Len(result) <= 6)

\* every iteration of the details loop moves the index forward or leaves the loop, and
\* the statement after the loop returns
ScanProgress ==
    /\ pc = "scan" => (pc' = "scan" /\ scan'.i > scan.i) \/ pc' \in {"merge", "done"}
    /\ pc = "merge" => pc' = "done"

\* C23 as stated: the details loop terminates on every line sequence (each iteration moves
\* the index forward or leaves the loop, and the index never passes the end by more
\* than 4), advances by 4 lines after each accepted age token and yields at
\* most 6 detail records; the roster extract_passengers returns never has more than 6
\* passengers, so the passenger-count cross-check is never invalid.
C23_ScanAndRosterCapped ==
    /\ [](ScanSafe /\ RosterCapped)
    /\ [][ScanProgress]_<<pc, scan>>

\* C23 amended: the details loop terminates on every line sequence, advances by 4 lines
\* after each accepted age token and yields at most 6 detail records; the roster is as
\* long as the longer of the accepted name lines and the detail records, so it exceeds
\* 6 passengers only when more than 6 name lines are accepted, and the passenger-count
\* cross-check is valid iff the roster has 1 to 6 passengers.
C23_ScanCappedRosterAsLongAsNames ==
    /\ [](ScanSafe /\ RosterAsLongAsNames)
    /\ [][ScanProgress]_<<pc, scan>>

\* the loop stopped at 6 detail records of a section of 7, and the roster of the 7
\* names of the page fails the count check
C23_Witness ==
    /\ RosterReturned /\ scan # EmptyDict
    /\ scan.passenger_count = 6 /\ scan.i = 26 /\ scan.i <= Len(given)
    /\ Len(PassengerNames(given)) = 7 /\ Len(result) = 7
    /\ ~CountCheck.valid

\* ------------------------------------------------------------------------
\* analyze_journey_patterns
\* ------------------------------------------------------------------------

\* a journey list has been analysed
PatternsAnalysed == entry = "analyze_journey_patterns" /\ pc = "done" /\ given # <<>>

\* the station event has a station code
HasStation(event) == "station" \in DOMAIN event /\ Strip(event.station) # ""

\* segment i has a destination station, and it is the boarding station of segment i + 1
Connected(journeys, i) ==
    /\ HasStation(journeys[i].destination) /\ HasStation(journeys[i + 1].boarding)
    /\ Strip(journeys[i].destination.station) = Strip(journeys[i + 1].boarding.station)

\* the pairs of consecutive segments that are connected
ConnectedPairs(journeys) == {i \in 1..(Len(journeys) - 1) : Connected(journeys, i)}

\* the distance of a segment, 0 when it was not extracted
DistanceOrZero(j) == IF j.distance_km = NoneNum THEN 0 ELSE j.distance_km

\* the sum of the segments' distances over the segments in S
SumDistances(journeys, S) ==
    LET RECURSIVE Sum(_)
        Sum(T) == IF T = {} THEN 0
                  ELSE LET k == CHOOSE x \in T : TRUE
                       IN  DistanceOrZero(journeys[k]) + Sum(T \ {k})
    IN  Sum(S)

\* the total, the classification and the bound on the connections
PatternsTotals ==
    PatternsAnalysed =>
        /\ result.total_segments = Len(given)
        /\ result.total_distance = SumDistances(given, 1..Len(given))
        /\ result.is_multi_segment = (Len(given) > 1)
        /\ result.journey_type = (IF Len(given) > 1 THEN "multi_segment" ELSE "single")
        /\ Len(result.connections) <= Len(given) - 1

\* C24: analyze_journey_patterns, for any ordered journey list: total distance is the sum
\* of the segments' distances (absent counted as 0); the journey is multi-segment iff it
\* has more than one segment; a connection record is produced for consecutive segments
\* N, N+1 exactly when segment N has a destination station that equals segment N+1's
\* boarding station, so there are at most segments - 1 connections and none between
\* segments whose stations were not extracted.
C24_JourneyPatterns ==
    /\ PatternsTotals
    /\ PatternsAnalysed =>
           /\ Len(result.connections) = Cardinality(ConnectedPairs(given))
           /\ \A k \in 1..Len(result.connections) : result.connections[k].connection_station # ""

\* the totals hold on a list of three segments of which one has no distance
C24_TotalsReached ==
    /\ PatternsAnalysed /\ Len(given) = 3
    /\ given[2].distance_km = NoneNum /\ result.total_distance = 1000
    /\ Len(result.connections) = 0

\* the hour of a timestamp DD-MM-YYYY HH:MM:SS
HourOf(timestamp) == Ch(timestamp, 12) \o Ch(timestamp, 13)

\* the boarding timestamp of the segment has hour 22 or 23
LateBoarding(j) ==
    DateTimeOf(j.boarding) # None /\ HourOf(DateTimeOf(j.boarding)) \in {"22", "23"}

\* the arrival timestamp of the segment has hour 00
ArrivalAfterMidnight(j) ==
    DateTimeOf(j.destination) # None /\ HourOf(DateTimeOf(j.destination)) = "00"

\* the journey metadata carry the overnight flag
OvernightFlagSet == "has_overnight" \in DOMAIN result /\ result.has_overnight

\* C25: the overnight flag in the journey metadata is set iff some segment's boarding
\* timestamp has hour 22 or 23 or some segment's arrival timestamp has hour 00; a segment
\* whose timestamps merely contain 22, 23 or 00 in the minutes or seconds position does
\* not set it.
C25_OvernightByHour ==
    PatternsAnalysed =>
        (OvernightFlagSet <=>
            \E i \in 1..Len(given) : LateBoarding(given[i]) \/ ArrivalAfterMidnight(given[i]))

\* the flag follows the hours when no timestamp has 22, 23 or 00 in its minutes and
\* every segment with a boarding time has an arrival time
OvernightByHourOnCleanTimes ==
    PatternsAnalysed /\ (\A i \in 1..Len(given) : given[i].train_number \in {"12956", "20946", "12955", "19019"})
        => (OvernightFlagSet <=>
               \E i \in 1..Len(given) : LateBoarding(given[i]) \/ ArrivalAfterMidnight(given[i]))

\* ------------------------------------------------------------------------
\* extract_payment_details and extract_amount
\* ------------------------------------------------------------------------

\* the lines of a page have gone through extract_payment_details
PaymentExtracted == entry = "extract_payment_details" /\ pc = "done"

\* the index of the payment-section anchor, 0 when there is none
PaymentSectionAt(lines) ==
    FirstIn({i \in 1..Len(lines) :
        Contains(lines[i], "Payment Details") \/ Contains(lines[i], "Ticket Fare")})

\* the indices at or after the payment-section anchor where the anchor of a fee field is
FeeAnchorsOf(lines, key) ==
    IF PaymentSectionAt(lines) = 0 THEN {}
    ELSE {i \in PaymentSectionAt(lines)..Len(lines) : PaymentKey(lines[i]) = key}

\* the amount of an anchor: the amount on the anchor line, else the amount of the first
\* of the next two lines that is an amount, else none
AnchorAmount(lines, i) ==
    IF AmountInLine(lines[i]) # NoneNum THEN AmountInLine(lines[i])
    ELSE IF i + 1 <= Len(lines) /\ AmountWholeLine(lines[i + 1]) # NoneNum
    THEN AmountWholeLine(lines[i + 1])
    ELSE IF i + 2 <= Len(lines) /\ AmountWholeLine(lines[i + 2]) # NoneNum
    THEN AmountWholeLine(lines[i + 2])
    ELSE NoneNum

\* the anchor line and the two lines after it
AnchorWindow(lines, i) == SubSeq(lines, i, IF i + 2 <= Len(lines) THEN i + 2 ELSE Len(lines))

\* the field holds the amount of its last anchor, read from the anchor line and the two
\* lines after it alone; without an anchor it is none
FeeFieldSettled(key) ==
    LET at == FeeAnchorsOf(given, key)
    IN  IF at = {} THEN result[key] = NoneNum
        ELSE /\ result[key] = AnchorAmount(given, SetMax(at))
             /\ result[key] = AnchorAmount(AnchorWindow(given, SetMax(at)), 1)

\* C26: for each fee-line anchor found at or after the payment-section anchor,
\* extract_amount first looks for an amount on the anchor line itself and only if none is
\* found there examines the next two lines in order, returning the first amount found
\* with thousands separators removed and none if there is none; lines further than two
\* after the anchor are never read, and a fee field whose anchor never occurs stays none.
C26_AmountOfAnchor ==
    PaymentExtracted => \A key \in DOMAIN NoPayment : FeeFieldSettled(key)

\* an anchor without an amount, followed by a lone separator, an amount with a thousands
\* separator and a further amount: the second line after the anchor is the amount
C26_Witness ==
    /\ PaymentExtracted
    /\ given = <<"Payment Details", "Total Fare (all inclusive)", ",", "1,234.50", "480.00">>
    /\ result.total = 123450
    /\ result.ticket_fare = NoneNum

\* an anchor followed by two lines that are no amounts and an amount on the third
C26_ThirdLineUnread ==
    /\ PaymentExtracted
    /\ given = <<"Ticket Fare", "N/A", ",", "480.00">>
    /\ result.ticket_fare = NoneNum

\* an anchor line with an amount wins over the lines that follow it
C26_AnchorLineFirst ==
    /\ PaymentExtracted
    /\ given = <<"Ticket Fare 1,480.00", "480.00", "N/A", "N/A">>
    /\ result.ticket_fare = 148000

\* ------------------------------------------------------------------------
\* The validation result of the records extract_from_pdf returns
\* ------------------------------------------------------------------------

\* extract_from_pdf returned the validated record of a single-page document
SinglePageValidated ==
    ReturnedClean /\ Len(doc) = 1 /\ validate /\ "validation" \in DOMAIN result

\* the keys of the passenger checks of a roster of n passengers
PassengerCheckKeys(n) == {"passenger_" \o ToStr(i) : i \in 1..n}

\* C27: for every record returned by the single-page path of extract_from_pdf with
\* validation enabled, field_validations has only the key 'pnr' (when an identifier was
\* extracted) and the keys 'passenger_<i>': the train-number and station-code validators
\* are never invoked, because the parsed record holds train number and stations inside
\* the journeys list and never under the top-level keys validate_extracted_data reads.
C27_OnlyPnrAndPassengerChecks ==
    SinglePageValidated =>
        /\ DOMAIN result.validation.field_validations
             = (IF Truthy(result.pnr) THEN {"pnr"} ELSE {})
               \cup PassengerCheckKeys(Len(result.passengers))
        /\ {"train_number", "from_station", "to_station"} \cap DOMAIN result = {}

\* a validated record with identifier, two passengers and a journey with train number
\* and station codes has the three checks of identifier and passengers alone
C27_Witness ==
    /\ SinglePageValidated
    /\ Truthy(result.pnr) /\ Len(result.passengers) = 2 /\ Len(result.journeys) = 1
    /\ Truthy(result.journeys[1].train_number)
    /\ StationOf(result.journeys[1].boarding) # ""
    /\ StationOf(result.journeys[1].destination) # ""
    /\ DOMAIN result.validation.field_validations = {"pnr", "passenger_1", "passenger_2"}

\* the validation results inside the records extract_from_pdf returned
ReturnedValidations ==
    {r.validation : r \in {x \in ReturnedRecords : "validation" \in DOMAIN x}}

\* C28: for every record returned by extract_from_pdf, the validation result's
\* corrections_applied list is empty: enrichment has applied the same name-based gender
\* inference before validation runs, so validation never infers a gender that enrichment
\* left unknown, and no station-code correction is reachable.
C28_NoCorrectionsApplied ==
    \A v \in ReturnedValidations : v.corrections_applied = <<>>

\* a validated record is returned with a passenger whose gender enrichment inferred from
\* the name and a passenger whose gender stayed unknown
C28_Witness ==
    /\ SinglePageValidated
    /\ result.validation.corrections_applied = <<>>
    /\ \E i \in 1..Len(result.passengers) :
           "gender_inferred" \in DOMAIN result.passengers[i]
    /\ \E i \in 1..Len(result.passengers) :
           ~Truthy(result.passengers[i].gender) /\ Truthy(result.passengers[i].name)

\* ------------------------------------------------------------------------
\* The document handle
\* ------------------------------------------------------------------------

\* extract_from_pdf has returned
ExtractReturned == entry = "extract_from_pdf" /\ pc = "returned"

\* C29: the document handle opened by extract_from_pdf is closed before extract_from_pdf
\* returns on every path, including the paths where parsing, validation or metadata
\* generation raises and the failure record is returned.
C29_HandleClosedOnReturn == ExtractReturned => ~doc_open

\* the handle is closed on every return that no exception preceded
HandleClosedOnCleanReturn == ExtractReturned /\ exc = None => ~doc_open

\* the handle is open on every return through the outer handler after the open succeeded
HandleOpenAfterException == ExtractReturned /\ exc \notin {None, OpenError} => doc_open

\* ------------------------------------------------------------------------
\* The multi-booking wrapper
\* ------------------------------------------------------------------------

\* extract_from_pdf returned a multi-booking wrapper
WrapperReturned == ReturnedClean /\ "multi_booking" \in DOMAIN result

\* C30: in every multi-booking wrapper returned by extract_from_pdf, booking_count equals
\* the length of bookings, equals bookings_found, and is at least 2 and at most the page
\* count; every booking has success = true; and the bookings appear in strictly
\* increasing page-number order (document order).
C30_WrapperCounts ==
    WrapperReturned =>
        LET bookings == result.bookings
            n == result.booking_count
        IN  /\ n = Len(bookings)
            /\ n = result.extraction_metadata.bookings_found
            /\ n >= 2 /\ n <= Len(doc)
            /\ result.extraction_metadata.total_pages = Len(doc)
            /\ \A k \in 1..Len(bookings) : bookings[k].success
            /\ \A k \in 1..(Len(bookings) - 1) :
                   bookings[k].page_number < bookings[k + 1].page_number
            /\ \A k \in 1..Len(bookings) : bookings[k].page_number \in 1..Len(doc)

\* a wrapper with the bookings of pages 1 and 3 of a three-page document whose second
\* page did not qualify
C30_Witness ==
    /\ WrapperReturned /\ Len(doc) = 3
    /\ result.booking_count = 2
    /\ result.bookings[1].page_number = 1 /\ result.bookings[2].page_number = 3
    /\ ~page_records[2].success

====
